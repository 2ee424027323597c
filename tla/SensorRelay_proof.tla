------------------------- MODULE SensorRelay_proof -------------------------
(***************************************************************************)
(* What the relaying of measurements guarantees for any number of boards,  *)
(* links, measurements and failures: its types on any network, and on      *)
(* networks without cycles, like the rows of the Renode scripts, that no   *)
(* measurement comes back to the board that took it and that every damaged *)
(* or repeated line at the sink was paid for by a failure.                 *)
(***************************************************************************)
EXTENDS SensorRelay, SensorMesh_proof

-----------------------------------------------------------------------------
(* The measurements and the links they run over. *)

\* The steps that send and handle measurements: of what belongs to the links
\* they touch the count of failures, and a write to a null connection halts.
Quiet ==
    /\ UNCHANGED <<boot, advertising, scanning, initiating, ep, disc,
                   scan_work, default_connections, num_connections,
                   char_handles, conn_ready>>
    /\ \/ UNCHANGED halted
       \/ \E n \in Node : halted' = [halted EXCEPT ![n] = "nullconn"]
    /\ faults' \in 0 .. MaxFaults

\* What this component relies on of the one underneath.
LinksInv == SensorInv /\ InRange

LEMMA StepOfLinks ==
    ASSUME LinksInv, [RelayNext]_vars
    PROVE  [SensorMeshNext]_sensorVars \/ Quiet
<1>0. faults \in 0 .. MaxFaults /\ LinkTypeOK
  BY DEF LinksInv, SensorInv, SensorTypeOK, TableTypeOK, LinkTypeOK
<1>1. ASSUME NEW n \in Node, Measure(n) \/ SendCheck(n)
      PROVE  UNCHANGED sensorVars
  BY <1>1 DEF Measure, SendCheck
<1>2. ASSUME NEW n \in Node, SendWrite(n) PROVE Quiet
  <2>1. faults' \in 0 .. MaxFaults
    BY <1>0, <1>2, FaultType DEF SendWrite
  <2> QED
    BY <1>2, <2>1 DEF SendWrite, Quiet, tableVars
<1>3. ASSUME NEW n \in Node, SendWriteNull(n) PROVE Quiet
  BY <1>0, <1>3 DEF SendWriteNull, Quiet, linkVars
<1>4. ASSUME NEW n \in Node, NEW p \in Node, OnWrite(n, p) PROVE Quiet
  <2>1. faults' \in 0 .. MaxFaults
    BY <1>0, <1>4, FaultType DEF OnWrite
  <2> QED
    BY <1>4, <2>1 DEF OnWrite, Quiet, tableVars
<1>5. ASSUME NEW p \in Node, OnWriteSink(p) PROVE UNCHANGED sensorVars
  BY <1>5 DEF OnWriteSink
<1>6. ASSUME NEW n \in Node, NEW p \in Node, LinkLost(n, p)
      PROVE  SensorMeshNext
  BY <1>6 DEF LinkLost, SensorMeshNext
<1>7. CASE \/ ButtonPressed
           \/ \E n \in Node : SensorNodeStep(n)
           \/ \E n, p \in Node : SensorLinkStep(n, p)
  BY <1>7 DEF SensorMeshNext
<1>8. CASE UNCHANGED vars
  BY <1>8 DEF vars
<1> QED
  BY <1>1, <1>2, <1>3, <1>4, <1>5, <1>6, <1>7, <1>8 DEF RelayNext, MainStep

LEMMA QuietKeeps ==
    ASSUME LinksInv, Quiet
    PROVE  LinksInv'
<1>1. TableTypeOK /\ halted \in [Node -> Undefined]
  BY DEF LinksInv, SensorInv, SensorTypeOK, TableTypeOK
<1>2. halted' \in [Node -> Undefined] /\ \A n \in Node : Runs(n)' => Runs(n)
  <2>1. ASSUME NEW m \in Node, halted' = [halted EXCEPT ![m] = "nullconn"]
        PROVE  halted' \in [Node -> Undefined]
               /\ \A n \in Node : Runs(n)' => Runs(n)
    BY <1>1, <2>1 DEF Undefined, Runs
  <2>2. CASE UNCHANGED halted
    BY <1>1, <2>2 DEF Runs
  <2> QED
    BY <2>1, <2>2 DEF Quiet
<1>3. SensorTypeOK'
  BY <1>1, <1>2
  DEF LinksInv, SensorInv, SensorTypeOK, TableTypeOK, LinkTypeOK, Quiet
<1>4. \A n, p \in Node :
          Slots(n, p)' = Slots(n, p) /\ Live(n)' = Live(n)
  BY DEF Slots, Live, Quiet
<1>5. TableMatchesLinks'
  BY <1>2, <1>4 DEF LinksInv, SensorInv, TableInv, TableMatchesLinks
<1>6. DiscoversOnUp' /\ FreshReady' /\ InRange'
  BY <1>4
  DEF LinksInv, SensorInv, TableInv, DiscoversOnUp, FreshReady, InRange, Quiet
<1> QED
  BY <1>3, <1>5, <1>6 DEF LinksInv, SensorInv, TableInv, SensorTypeOK

LEMMA LinksStep == LinksInv /\ [RelayNext]_vars => LinksInv' /\ SlotsKept
<1> SUFFICES ASSUME LinksInv, [RelayNext]_vars PROVE LinksInv' /\ SlotsKept
  OBVIOUS
<1>1. SensorInv /\ InRange /\ SensorTypeOK /\ TableTypeOK
  BY DEF LinksInv, SensorInv, SensorTypeOK
<1>2. CASE Quiet
  BY <1>1, <1>2, QuietKeeps, UntouchedSlots DEF Quiet
<1>3. CASE [SensorMeshNext]_sensorVars
  BY <1>1, <1>3, SensorInvNext, SensorInRangeNext, SensorSlotsNext
  DEF LinksInv
<1> QED
  BY <1>2, <1>3, StepOfLinks

\* A slot in use leads to a board in range.
LEMMA SlotInRange ==
    ASSUME LinksInv, NEW n \in Node, NEW i \in Slot, i < num_connections[n],
           default_connections[n][i] # NoPeer
    PROVE  /\ default_connections[n][i] \in Node
           /\ default_connections[n][i] \in Neighbours[n]
           /\ i \in Slots(n, default_connections[n][i])
<1>1. TableTypeOK /\ TableMatchesLinks /\ InRange
  BY DEF LinksInv, SensorInv, TableInv
<1> DEFINE q == default_connections[n][i]
<1>2. q \in Node
  BY <1>1 DEF TableTypeOK
<1>3. i \in Slots(n, q)
  BY DEF Slots
<1>4. ep[n][q] \in {"up", "closing"}
  BY <1>1, <1>2, <1>3 DEF TableMatchesLinks, Live
<1> QED
  BY <1>1, <1>2, <1>3, <1>4 DEF InRange

\* A slot that is sent to leads to a board in range, and not to the one whose
\* slot is skipped.
LEMMA SlotSentTo ==
    ASSUME LinksInv, NEW n \in Node, NEW p \in Node,
           NEW i \in SendableTo(n, FirstSlot(n, p))
    PROVE  /\ default_connections[n][i] \in Neighbours[n]
           /\ default_connections[n][i] \in Node
           /\ default_connections[n][i] # p
<1>1. TableMatchesLinks
  BY DEF LinksInv, SensorInv, TableInv
<1>2. i \in Slot /\ i < num_connections[n] /\ i \notin FirstSlot(n, p)
      /\ default_connections[n][i] # NoPeer
  BY DEF SendableTo, Sendable
<1>3. default_connections[n][i] # p
  <2> SUFFICES ASSUME default_connections[n][i] = p
               PROVE  i \in FirstSlot(n, p)
    BY <1>2
  <2>1. i \in Slots(n, p) /\ \A j \in Slots(n, p) : j = i
    BY <1>1, <1>2, SlotInRange DEF TableMatchesLinks
  <2>2. i \in Int
    BY <1>2, TableAssumption, SMT DEF Slot
  <2>3. i <= i
    BY <2>2, SMT
  <2> QED
    BY <2>1, <2>3 DEF FirstSlot
<1> QED
  BY <1>2, <1>3, SlotInRange

-----------------------------------------------------------------------------
(* Queues. *)

LEMMA TailType ==
    ASSUME NEW S, NEW q \in Seq(S), q # << >>
    PROVE  Head(q) \in S /\ Tail(q) \in Seq(S)
  BY SMT

LEMMA AppendType ==
    ASSUME NEW S, NEW q \in Seq(S), NEW d \in S
    PROVE  Append(q, d) \in Seq(S)
  BY SMT

LEMMA PostType ==
    ASSUME NEW S, NEW n, NEW p, NEW q \in Seq(S), NEW m \in S
    PROVE  Post(q, n, p, m) \in Seq(S)
  BY AppendType DEF Post

\* What a relay does to the queues.
LEMMA RelayedEffect ==
    ASSUME chan \in [Node -> [Node -> Seq(Message)]], NEW n \in Node,
           NEW p \in Node, NEW msg \in Message, NEW lost,
           chan[p][n] # << >>, chan' = Relayed(n, p, msg, lost)
    PROVE  /\ chan' \in [Node -> [Node -> Seq(Message)]]
           /\ n # p => chan'[p][n] = Tail(chan[p][n])
           /\ \A q \in Node :
                 \/ chan'[n][q] = chan[n][q]
                 \/ /\ chan'[n][q] = Append(chan[n][q], msg)
                    /\ \E i \in SendableTo(n, FirstSlot(n, p)) :
                           default_connections[n][i] = q
           /\ \A m, q \in Node : m # n /\ <<m, q>> # <<p, n>> =>
                 chan'[m][q] = chan[m][q]
<1> DEFINE to == {default_connections[n][i] :
                      i \in SendableTo(n, FirstSlot(n, p)) \ lost}
           after == [chan EXCEPT ![p][n] = Tail(@)]
           out == [q \in Node |-> IF q \in to THEN Post(chan[n][q], n, q, msg)
                                  ELSE chan[n][q]]
<1>1. chan' = [after EXCEPT ![n] = out]
  BY DEF Relayed
<1>2. /\ after \in [Node -> [Node -> Seq(Message)]]
      /\ after[p][n] = Tail(chan[p][n])
      /\ \A m, q \in Node : <<m, q>> # <<p, n>> => after[m][q] = chan[m][q]
  <2>1. Tail(chan[p][n]) \in Seq(Message)
    BY TailType
  <2> QED
    BY <2>1
<1>3. \A q \in to : \E i \in SendableTo(n, FirstSlot(n, p)) :
          default_connections[n][i] = q
  OBVIOUS
<1> HIDE DEF to
<1>4. out \in [Node -> Seq(Message)]
  BY PostType
<1>5. \A q \in Node :
          \/ out[q] = chan[n][q]
          \/ q \in to /\ out[q] = Append(chan[n][q], msg)
  BY DEF Post
<1> HIDE DEF after, out
<1>6. chan'[n] = out /\ \A m \in Node : m # n => chan'[m] = after[m]
  BY <1>1, <1>2
<1>7. chan' \in [Node -> [Node -> Seq(Message)]]
  BY <1>1, <1>2, <1>4
<1>8. n # p => chan'[p][n] = Tail(chan[p][n])
  BY <1>2, <1>6
<1>9. ASSUME NEW q \in Node
      PROVE  \/ chan'[n][q] = chan[n][q]
             \/ /\ chan'[n][q] = Append(chan[n][q], msg)
                /\ \E i \in SendableTo(n, FirstSlot(n, p)) :
                       default_connections[n][i] = q
  BY <1>3, <1>5, <1>6
<1>10. \A m, q \in Node : m # n /\ <<m, q>> # <<p, n>> =>
           chan'[m][q] = chan[m][q]
  BY <1>2, <1>6
<1> QED
  BY <1>7, <1>8, <1>9, <1>10

-----------------------------------------------------------------------------
(* Type correctness, on any network. *)

\* Where the main threads are in their loops.
MainOK ==
    \A n \in Node : /\ pc[n] # "sleep" => Source(n)
                    /\ pc[n] = "write" => idx[n] < num_connections[n]

RelayTypeInv == RelayTypeOK /\ LinksInv /\ MainOK

LEMMA ClockType ==
    /\ 0 \in Clock /\ Clock \subseteq Nat
    /\ \A n \in Node : \A c \in Clock : c < MaxMeasurements[n] => c + 1 \in Clock
<1>1. \A n \in Node : MaxMeasurements[n] \in Nat
  BY RelayAssumption
<1>2. \A n \in Node : 0 \in 0 .. MaxMeasurements[n]
  BY <1>1, SMT
<1>3. 0 \in Clock
  BY <1>2, SinkAssumption DEF Clock
<1>4. \A n \in Node : 0 .. MaxMeasurements[n] \subseteq Nat
  BY <1>1, SMT
<1>5. Clock \subseteq Nat
  BY <1>4 DEF Clock
<1>6. \A n \in Node : \A c \in Nat : c < MaxMeasurements[n] =>
          c + 1 \in 0 .. MaxMeasurements[n]
  BY <1>1, SMT
<1>7. \A n \in Node : \A c \in Clock : c < MaxMeasurements[n] => c + 1 \in Clock
  BY <1>5, <1>6 DEF Clock
<1> QED
  BY <1>3, <1>5, <1>7

LEMMA OwnType ==
    ASSUME RelayTypeOK, NEW n \in Node, Source(n)
    PROVE  Own(n) \in Message
  BY RelayAssumption DEF RelayTypeOK, Own, Message

LEMMA MeasureType ==
    ASSUME RelayTypeInv, NEW n \in Node, Measure(n)
    PROVE  RelayTypeInv'
<1>0. RelayTypeOK /\ SensorTypeOK /\ LinksInv' /\ SensorTypeOK'
  BY LinksStep
  DEF RelayTypeInv, RelayTypeOK, LinksInv, SensorInv, RelayNext, MainStep
<1>1. counter' \in [Node -> Clock]
  BY <1>0, ClockType DEF Measure, RelayTypeOK
<1>2. pc' \in [Node -> {"sleep", "check", "write"}]
  BY <1>0 DEF Measure, RelayTypeOK
<1>3. MainOK'
  <2>1. /\ \A m \in Node : m # n => pc'[m] = pc[m]
        /\ pc'[n] # "write" /\ Source(n)
        /\ UNCHANGED <<idx, num_connections>>
    BY <1>0 DEF Measure, RelayTypeOK, sensorVars, meshVars, tableVars
  <2> QED
    BY <2>1 DEF MainOK, RelayTypeInv
<1> QED
  BY <1>0, <1>1, <1>2, <1>3 DEF RelayTypeInv, RelayTypeOK, Measure

LEMMA SendCheckType ==
    ASSUME RelayTypeInv, NEW n \in Node, SendCheck(n)
    PROVE  RelayTypeInv'
<1>0. RelayTypeOK /\ SensorTypeOK /\ LinksInv' /\ SensorTypeOK' /\ MainOK
  BY LinksStep
  DEF RelayTypeInv, RelayTypeOK, LinksInv, SensorInv, RelayNext, MainStep
<1>1. /\ idx \in [Node -> 0 .. MAX_CONNECTIONS]
      /\ pc \in [Node -> {"sleep", "check", "write"}] /\ pc[n] = "check"
      /\ messages \in [Node -> Message] /\ Source(n)
      /\ num_connections[n] \in 0 .. MAX_CONNECTIONS
      /\ UNCHANGED num_connections
  BY <1>0
  DEF RelayTypeOK, SensorTypeOK, TableTypeOK, SendCheck, MainOK, sensorVars,
      meshVars, tableVars
<1>2. idx' \in [Node -> 0 .. MAX_CONNECTIONS]
  <2>1. ~LoopDone(n) => idx[n] + 1 \in 0 .. MAX_CONNECTIONS
    BY <1>1, TableAssumption, SMT DEF LoopDone
  <2>2. 0 \in 0 .. MAX_CONNECTIONS
    BY TableAssumption, SMT
  <2>3. \/ idx' = idx
        \/ idx' = [idx EXCEPT ![n] = 0]
        \/ idx' = [idx EXCEPT ![n] = @ + 1] /\ ~LoopDone(n)
    BY DEF SendCheck
  <2> QED
    BY <1>1, <2>1, <2>2, <2>3
<1>3. pc' \in [Node -> {"sleep", "check", "write"}]
  BY <1>1 DEF SendCheck
<1>4. messages' \in [Node -> Message]
  BY <1>0, <1>1, OwnType DEF SendCheck
<1>5. MainOK'
  <2>1. /\ \A m \in Node : m # n => pc'[m] = pc[m] /\ idx'[m] = idx[m]
        /\ pc'[n] = "write" => ~LoopDone(n) /\ idx'[n] = idx[n]
    BY <1>1 DEF SendCheck
  <2>2. ~LoopDone(n) => idx[n] < num_connections[n]
    BY <1>1, SMT DEF LoopDone
  <2> QED
    BY <1>0, <1>1, <2>1, <2>2 DEF MainOK
<1> QED
  BY <1>0, <1>2, <1>3, <1>4, <1>5 DEF RelayTypeInv, RelayTypeOK, SendCheck

LEMMA SendWriteType ==
    ASSUME RelayTypeInv, NEW n \in Node, SendWrite(n)
    PROVE  RelayTypeInv'
<1> DEFINE d == default_connections[n][idx[n]]
<1>0. RelayTypeOK /\ SensorTypeOK /\ LinksInv' /\ SensorTypeOK' /\ MainOK
  BY LinksStep
  DEF RelayTypeInv, RelayTypeOK, LinksInv, SensorInv, RelayNext, MainStep
<1>1. /\ idx \in [Node -> 0 .. MAX_CONNECTIONS]
      /\ pc \in [Node -> {"sleep", "check", "write"}] /\ pc[n] = "write"
      /\ messages \in [Node -> Message]
      /\ chan \in [Node -> [Node -> Seq(Message)]]
      /\ idx[n] < num_connections[n]
      /\ num_connections[n] \in 0 .. MAX_CONNECTIONS
      /\ UNCHANGED num_connections
  BY <1>0
  DEF RelayTypeOK, SensorTypeOK, TableTypeOK, SendWrite, MainOK, tableVars
<1>2. idx[n] + 1 \in 0 .. MAX_CONNECTIONS /\ idx[n] \in Slot
  BY <1>1, TableAssumption, SMT DEF Slot
<1>3. d \in Node
  BY <1>0, <1>2 DEF SendWrite, SensorTypeOK, TableTypeOK
<1>4. chan' \in [Node -> [Node -> Seq(Message)]]
  <2> DEFINE q == Post(chan[n][d], n, d, messages[n])
  <2>1. q \in Seq(Message)
    BY <1>1, <1>3, PostType
  <2>2. UNCHANGED chan \/ chan' = [chan EXCEPT ![n][d] = q]
    BY <1>1, <1>3 DEF SendWrite
  <2>3. chan \in [Node -> [Node -> Seq(Message)]]
    BY <1>1
  <2> HIDE DEF d, q
  <2>4. CASE chan' = [chan EXCEPT ![n][d] = q]
    BY <1>3, <2>1, <2>3, <2>4
  <2> QED
    BY <2>2, <2>3, <2>4
<1>5. /\ idx' \in [Node -> 0 .. MAX_CONNECTIONS]
      /\ pc' \in [Node -> {"sleep", "check", "write"}]
  BY <1>1, <1>2 DEF SendWrite
<1>6. MainOK'
  <2>1. /\ \A m \in Node : m # n => pc'[m] = pc[m] /\ idx'[m] = idx[m]
        /\ pc'[n] = "check"
    BY <1>1 DEF SendWrite
  <2> QED
    BY <1>0, <1>1, <2>1 DEF MainOK
<1> QED
  BY <1>0, <1>4, <1>5, <1>6 DEF RelayTypeInv, RelayTypeOK, SendWrite

LEMMA OnWriteSinkType ==
    ASSUME RelayTypeInv, NEW p \in Node, OnWriteSink(p)
    PROVE  RelayTypeInv'
<1>0. RelayTypeOK /\ LinksInv' /\ SensorTypeOK' /\ MainOK
  BY LinksStep
  DEF RelayTypeInv, RelayTypeOK, LinksInv, SensorInv, RelayNext
<1>1. /\ chan \in [Node -> [Node -> Seq(Message)]] /\ chan[p][Sink] # << >>
      /\ printed \in Seq(Message)
  BY <1>0 DEF RelayTypeOK, OnWriteSink
<1>2. Head(chan[p][Sink]) \in Message /\ Tail(chan[p][Sink]) \in Seq(Message)
  BY <1>1, SinkAssumption, TailType
<1>3. chan' \in [Node -> [Node -> Seq(Message)]]
  BY <1>1, <1>2 DEF OnWriteSink
<1>4. printed' \in Seq(Message)
  BY <1>1, <1>2, AppendType DEF OnWriteSink
<1>5. MainOK'
  BY <1>0 DEF MainOK, OnWriteSink, sensorVars, meshVars, tableVars
<1> QED
  BY <1>0, <1>3, <1>4, <1>5 DEF RelayTypeInv, RelayTypeOK, OnWriteSink

LEMMA OnWriteType ==
    ASSUME RelayTypeInv, NEW n \in Node, NEW p \in Node, OnWrite(n, p)
    PROVE  RelayTypeInv'
<1> DEFINE msg == Head(chan[p][n])
<1>0. RelayTypeOK /\ LinksInv' /\ SensorTypeOK' /\ MainOK
  BY LinksStep
  DEF RelayTypeInv, RelayTypeOK, LinksInv, SensorInv, RelayNext
<1>1. /\ chan \in [Node -> [Node -> Seq(Message)]] /\ chan[p][n] # << >>
      /\ messages \in [Node -> Message]
      /\ last_timestamps \in [Node -> [Slot -> Clock]]
      /\ counter[n] \in Clock
  BY <1>0 DEF RelayTypeOK, OnWrite
<1>2. msg \in Message /\ Tail(chan[p][n]) \in Seq(Message)
  BY <1>1, TailType
<1>3. chan' \in [Node -> [Node -> Seq(Message)]]
  <2>1. CASE chan' = [chan EXCEPT ![p][n] = Tail(@)]
    BY <1>1, <1>2, <2>1
  <2>2. ASSUME NEW lost, chan' = Relayed(n, p, msg, lost)
        PROVE  chan' \in [Node -> [Node -> Seq(Message)]]
    BY <1>1, <1>2, <2>2, RelayedEffect
  <2>3. \/ chan' = [chan EXCEPT ![p][n] = Tail(@)]
        \/ chan' = Relayed(n, p, msg, {})
        \/ \E i \in SendableTo(n, FirstSlot(n, p)) :
               chan' = Relayed(n, p, msg, {i})
    BY DEF OnWrite
  <2> QED
    BY <2>1, <2>2, <2>3
<1>4. last_timestamps' \in [Node -> [Slot -> Clock]]
  <2>1. msg.nodeID \in Slot /\ msg.timestamp \in Clock
    BY <1>2 DEF Message
  <2>2. \/ UNCHANGED last_timestamps
        \/ last_timestamps' =
               [last_timestamps EXCEPT ![n][msg.nodeID] = msg.timestamp]
    BY DEF OnWrite
  <2>3. last_timestamps \in [Node -> [Slot -> Clock]]
    BY <1>1
  <2> HIDE DEF msg
  <2>4. CASE last_timestamps' =
               [last_timestamps EXCEPT ![n][msg.nodeID] = msg.timestamp]
    BY <2>1, <2>3, <2>4
  <2> QED
    BY <2>2, <2>3, <2>4
<1>5. messages' \in [Node -> Message]
  <2>1. \A m \in Overwritten(n, msg) : m \in Message
    BY <1>1, <1>2 DEF Overwritten, Own, Message
  <2>2. \/ UNCHANGED messages
        \/ \E m \in Overwritten(n, msg) :
               messages' = [messages EXCEPT ![n] = m]
    BY DEF OnWrite
  <2> HIDE DEF msg
  <2> QED
    BY <1>1, <2>1, <2>2
<1>6. UNCHANGED <<counter, printed, pc, idx, num_connections>>
  BY DEF OnWrite, tableVars
<1>7. MainOK'
  BY <1>0, <1>6 DEF MainOK
<1> QED
  BY <1>0, <1>3, <1>4, <1>5, <1>6, <1>7 DEF RelayTypeInv, RelayTypeOK

\* A main thread's place in its loop stays within the table, which only grows.
LEMMA MainStays ==
    ASSUME RelayTypeInv, SlotsKept, UNCHANGED <<pc, idx>>
    PROVE  MainOK'
<1> SUFFICES ASSUME NEW n \in Node, pc[n] = "write"
             PROVE  idx[n] < num_connections'[n]
  BY DEF MainOK, RelayTypeInv
<1>1. /\ idx[n] < num_connections[n] /\ idx[n] \in 0 .. MAX_CONNECTIONS
      /\ num_connections[n] \in Nat /\ num_connections'[n] \in Nat
      /\ num_connections[n] <= num_connections'[n]
  BY DEF RelayTypeInv, MainOK, RelayTypeOK, SlotsKept
<1> QED
  BY <1>1, TableAssumption, SMT

LEMMA LinkLostType ==
    ASSUME RelayTypeInv, NEW n \in Node, NEW p \in Node, LinkLost(n, p)
    PROVE  RelayTypeInv'
<1>0. RelayTypeOK /\ LinksInv' /\ SensorTypeOK' /\ SlotsKept
  BY LinksStep
  DEF RelayTypeInv, RelayTypeOK, LinksInv, SensorInv, RelayNext
<1>1. chan' \in [Node -> [Node -> Seq(Message)]]
  <2>1. << >> \in Seq(Message)
    BY SMT
  <2> QED
    BY <1>0, <2>1 DEF RelayTypeOK, LinkLost
<1>2. UNCHANGED <<counter, last_timestamps, printed, pc, idx, messages>>
  BY DEF LinkLost
<1>3. MainOK'
  BY <1>0, <1>2, MainStays
<1> QED
  BY <1>0, <1>1, <1>2, <1>3 DEF RelayTypeInv, RelayTypeOK

\* Steps that leave the measurements alone.
LEMMA AsideType ==
    ASSUME RelayTypeInv, [RelayNext]_vars, UNCHANGED relayVars
    PROVE  RelayTypeInv'
<1>0. RelayTypeOK /\ LinksInv' /\ SensorTypeOK' /\ SlotsKept
  BY LinksStep
  DEF RelayTypeInv, RelayTypeOK, LinksInv, SensorInv
<1>1. MainOK'
  BY <1>0, MainStays DEF relayVars
<1> QED
  BY <1>0, <1>1 DEF RelayTypeInv, RelayTypeOK, relayVars

LEMMA RelayTypeStep == RelayTypeInv /\ [RelayNext]_vars => RelayTypeInv'
<1> SUFFICES ASSUME RelayTypeInv, [RelayNext]_vars PROVE RelayTypeInv'
  OBVIOUS
<1>1. CASE UNCHANGED relayVars
  BY <1>1, AsideType
<1>2. ASSUME NEW n \in Node, MainStep(n) PROVE RelayTypeInv'
  BY <1>1, <1>2, MeasureType, SendCheckType, SendWriteType
  DEF MainStep, SendWriteNull
<1>3. CASE UNCHANGED vars
  BY <1>1, <1>3 DEF vars
<1> QED
  BY <1>1, <1>2, <1>3, OnWriteSinkType, OnWriteType, LinkLostType DEF RelayNext

LEMMA RelayTypeInit == SensorInit /\ RelayInit => RelayTypeInv
<1> SUFFICES ASSUME SensorInit, RelayInit PROVE RelayTypeInv
  OBVIOUS
<1>1. << >> \in Seq(Message) /\ 0 \in 0 .. MAX_CONNECTIONS /\ 0 \in Slot
  BY TableAssumption, RelayAssumption, SMT DEF Slot
<1>2. LinksInv
  BY SensorInvInit, InRangeInit DEF LinksInv, SensorInit
<1>3. MainOK
  BY DEF MainOK, RelayInit
<1>4. [nodeID |-> 0, timestamp |-> 0] \in Message
  BY <1>1, ClockType DEF Message
<1>5. RelayTypeOK
  BY <1>1, <1>4, ClockType, SensorInitType DEF RelayTypeOK, RelayInit
<1> QED
  BY <1>2, <1>3, <1>5 DEF RelayTypeInv

\* On any network measurements, what the relays remember of them and the
\* indices of the send loops stay in their ranges, whoever preempts whom.
THEOREM RelayTypeCorrect == RelaySpec => []RelayTypeOK
<1>1. RelayTypeInv => RelayTypeOK
  BY DEF RelayTypeInv
<1> QED
  BY <1>1, RelayTypeInit, RelayTypeStep, PTL DEF RelaySpec

-----------------------------------------------------------------------------
(* On networks without cycles no measurement comes back. *)

\* Seen from any of its boards the network is a tree: up[o] leads towards o.
Trees(up) == \A o \in Node : Rooted(up[o], o, Neighbours)

\* What n may send to p: the measurements of boards that lie on n's side.
Outbound(up, n, p) ==
    {m \in Message : \A o \in Node : m.nodeID = NodeId[o] => up[o][p] = n}

\* Everything on its way leads away from the board that measured it, and so
\* does what a main thread is about to write, unless its link is gone.
Away(up) == \A n, p \in Node : chan[n][p] \in Seq(Outbound(up, n, p))
Pending(up) ==
    \A n \in Node : pc[n] = "write" =>
        \/ default_connections[n][idx[n]] = NoPeer
        \/ messages[n] \in Outbound(up, n, default_connections[n][idx[n]])

EchoInv(up) == RelayTypeInv /\ Away(up) /\ Pending(up)

\* A board's own measurements may go to each of its neighbours.
LEMMA OwnOutbound ==
    ASSUME NEW up, Trees(up), RelayTypeOK, NEW n \in Node, Source(n),
           NEW p \in Node, p \in Neighbours[n]
    PROVE  Own(n) \in Outbound(up, n, p)
<1>1. Own(n) \in Message
  BY OwnType
<1>2. ASSUME NEW o \in Node, Own(n).nodeID = NodeId[o] PROVE up[o][p] = n
  <2>1. o = n
    BY <1>2, RelayAssumption DEF Own
  <2>2. up[n][n] = NoPeer /\ (up[n][n] = p \/ up[n][p] = n)
    BY DEF Trees, Rooted
  <2> QED
    BY <2>1, <2>2, RadioAssumption
<1> QED
  BY <1>1, <1>2 DEF Outbound

\* What p may send to n, n may pass on to every neighbour but p.
LEMMA OnwardOutbound ==
    ASSUME NEW up, Trees(up), NEW n \in Node, NEW p \in Node, NEW q \in Node,
           q \in Neighbours[n], q # p, NEW m \in Outbound(up, p, n)
    PROVE  m \in Outbound(up, n, q)
<1>1. ASSUME NEW o \in Node, m.nodeID = NodeId[o] PROVE up[o][q] = n
  <2>1. up[o][n] = p
    BY <1>1 DEF Outbound
  <2>2. up[o][n] = q \/ up[o][q] = n
    BY DEF Trees, Rooted
  <2> QED
    BY <2>1, <2>2
<1> QED
  BY <1>1 DEF Outbound

\* Only the number of a board decides where its measurements may go.
LEMMA StampedOutbound ==
    ASSUME NEW up, NEW n, NEW p, NEW m \in Outbound(up, n, p), NEW t \in Clock
    PROVE  [m EXCEPT !.timestamp = t] \in Outbound(up, n, p)
  BY DEF Outbound, Message

LEMMA EchoMeasure ==
    ASSUME NEW up, Trees(up), EchoInv(up), NEW n \in Node, Measure(n)
    PROVE  Away(up)' /\ Pending(up)'
<1>1. /\ \A m \in Node : m # n => pc'[m] = pc[m]
      /\ pc'[n] # "write"
      /\ UNCHANGED <<chan, idx, messages, default_connections>>
  BY DEF EchoInv, RelayTypeInv, RelayTypeOK, Measure, sensorVars, meshVars,
         tableVars
<1> QED
  BY <1>1 DEF EchoInv, Away, Pending, Outbound

LEMMA EchoSendCheck ==
    ASSUME NEW up, Trees(up), EchoInv(up), NEW n \in Node, SendCheck(n)
    PROVE  Away(up)' /\ Pending(up)'
<1>0. RelayTypeOK /\ LinksInv /\ Source(n)
      /\ UNCHANGED <<chan, default_connections>>
  BY DEF EchoInv, RelayTypeInv, MainOK, SendCheck, sensorVars, meshVars,
         tableVars
<1>1. /\ \A m \in Node : m # n => /\ pc'[m] = pc[m] /\ idx'[m] = idx[m]
                                  /\ messages'[m] = messages[m]
      /\ pc'[n] = "write" => /\ ~LoopDone(n) /\ Sendable(n, idx[n])
                             /\ idx'[n] = idx[n] /\ messages'[n] = Own(n)
  BY <1>0 DEF RelayTypeOK, SendCheck
<1>2. ASSUME ~LoopDone(n), Sendable(n, idx[n])
      PROVE  Own(n) \in Outbound(up, n, default_connections[n][idx[n]])
  <2>1. idx[n] \in Slot /\ idx[n] < num_connections[n]
    <3>1. /\ idx[n] \in 0 .. MAX_CONNECTIONS
          /\ num_connections[n] \in 0 .. MAX_CONNECTIONS
      BY <1>0 DEF RelayTypeOK, LinksInv, SensorInv, SensorTypeOK, TableTypeOK
    <3> QED
      BY <1>2, <3>1, TableAssumption, SMT DEF LoopDone, Slot
  <2>2. default_connections[n][idx[n]] # NoPeer
    BY <1>2 DEF Sendable
  <2> QED
    BY <1>0, <2>1, <2>2, SlotInRange, OwnOutbound
<1>3. Pending(up)'
  BY <1>0, <1>1, <1>2 DEF EchoInv, Pending, Outbound
<1> QED
  BY <1>0, <1>3 DEF EchoInv, Away, Outbound

LEMMA EchoSendWrite ==
    ASSUME NEW up, Trees(up), EchoInv(up), NEW n \in Node, SendWrite(n)
    PROVE  Away(up)' /\ Pending(up)'
<1> DEFINE d == default_connections[n][idx[n]]
           q == Post(chan[n][d], n, d, messages[n])
<1>0. RelayTypeOK /\ LinksInv /\ MainOK
  BY DEF EchoInv, RelayTypeInv
<1>1. idx[n] \in Slot
  <2>1. /\ idx[n] \in 0 .. MAX_CONNECTIONS /\ idx[n] < num_connections[n]
        /\ num_connections[n] \in 0 .. MAX_CONNECTIONS
    BY <1>0
    DEF RelayTypeOK, LinksInv, SensorInv, SensorTypeOK, TableTypeOK, MainOK,
        SendWrite
  <2> QED
    BY <2>1, TableAssumption, SMT DEF Slot
<1>2. d \in Node /\ d # NoPeer
  BY <1>0, <1>1
  DEF SendWrite, LinksInv, SensorInv, SensorTypeOK, TableTypeOK
<1>3. messages[n] \in Outbound(up, n, d)
  BY <1>2 DEF EchoInv, Pending, SendWrite
<1>4. chan[n][d] \in Seq(Outbound(up, n, d))
  BY <1>2 DEF EchoInv, Away
<1>5. q \in Seq(Outbound(up, n, d))
  BY <1>3, <1>4, PostType
<1>6. chan \in [Node -> [Node -> Seq(Message)]]
  BY <1>0 DEF RelayTypeOK
<1>7. UNCHANGED chan \/ chan' = [chan EXCEPT ![n][d] = q]
  BY <1>2, <1>6 DEF SendWrite
<1>8. /\ \A m \in Node : m # n => pc'[m] = pc[m] /\ idx'[m] = idx[m]
      /\ pc'[n] = "check"
      /\ UNCHANGED <<messages, default_connections>>
  BY <1>0 DEF RelayTypeOK, SendWrite, tableVars
<1>9. Pending(up)'
  BY <1>8 DEF EchoInv, Pending, Outbound
<1> HIDE DEF d, q
<1>10. CASE chan' = [chan EXCEPT ![n][d] = q]
  <2>1. \A m, p \in Node : \/ chan'[m][p] = chan[m][p]
                           \/ m = n /\ p = d /\ chan'[m][p] = q
    BY <1>2, <1>6, <1>10
  <2>2. Away(up)'
    BY <1>5, <2>1 DEF EchoInv, Away, Outbound
  <2> QED
    BY <1>9, <2>2
<1>11. CASE UNCHANGED chan
  BY <1>9, <1>11 DEF EchoInv, Away, Outbound
<1> QED
  BY <1>7, <1>10, <1>11

\* A queue whose first message is taken still leads the same way.
LEMMA AwayTaken ==
    ASSUME NEW up, RelayTypeOK, Away(up), NEW n \in Node, NEW p \in Node,
           chan[p][n] # << >>, chan' = [chan EXCEPT ![p][n] = Tail(@)]
    PROVE  Away(up)'
<1>1. chan[p][n] \in Seq(Outbound(up, p, n))
  BY DEF Away
<1>2. Tail(chan[p][n]) \in Seq(Outbound(up, p, n))
  BY <1>1, TailType
<1>3. chan \in [Node -> [Node -> Seq(Message)]]
  BY DEF RelayTypeOK
<1>4. \A m, q \in Node :
          \/ chan'[m][q] = chan[m][q]
          \/ m = p /\ q = n /\ chan'[m][q] = Tail(chan[p][n])
  BY <1>3
<1>5. \A m, q \in Node : chan[m][q] \in Seq(Outbound(up, m, q))
  BY DEF Away
<1>6. \A m, q \in Node : chan'[m][q] \in Seq(Outbound(up, m, q))
  BY <1>2, <1>4, <1>5, Zenon
<1> QED
  BY <1>6 DEF Away, Outbound

\* A relay passes a message on, away from where it came from.
LEMMA AwayRelayed ==
    ASSUME NEW up, Trees(up), EchoInv(up), NEW n \in Node, NEW p \in Node,
           n # p, chan[p][n] # << >>, NEW msg \in Outbound(up, p, n), NEW lost,
           chan' = Relayed(n, p, msg, lost)
    PROVE  Away(up)'
<1>0. LinksInv /\ chan \in [Node -> [Node -> Seq(Message)]]
  BY DEF EchoInv, RelayTypeInv, RelayTypeOK
<1>1. \A m, q \in Node : chan[m][q] \in Seq(Outbound(up, m, q))
  BY DEF EchoInv, Away
<1>2. Tail(chan[p][n]) \in Seq(Outbound(up, p, n))
  BY <1>1, TailType
<1>3. msg \in Message
  BY DEF Outbound
<1>4. /\ chan'[p][n] = Tail(chan[p][n])
      /\ \A q \in Node :
             \/ chan'[n][q] = chan[n][q]
             \/ /\ chan'[n][q] = Append(chan[n][q], msg)
                /\ \E i \in SendableTo(n, FirstSlot(n, p)) :
                       default_connections[n][i] = q
      /\ \A m, q \in Node : m # n /\ <<m, q>> # <<p, n>> =>
             chan'[m][q] = chan[m][q]
  BY <1>0, <1>3, RelayedEffect
<1>5. ASSUME NEW q \in Node PROVE chan'[n][q] \in Seq(Outbound(up, n, q))
  <2>1. ASSUME NEW i \in SendableTo(n, FirstSlot(n, p)),
               default_connections[n][i] = q,
               chan'[n][q] = Append(chan[n][q], msg)
        PROVE  chan'[n][q] \in Seq(Outbound(up, n, q))
    <3>1. q \in Neighbours[n] /\ q # p
      BY <1>0, <2>1, SlotSentTo
    <3>2. msg \in Outbound(up, n, q)
      BY <3>1, OnwardOutbound
    <3>3. chan[n][q] \in Seq(Outbound(up, n, q))
      BY <1>1
    <3> QED
      BY <2>1, <3>2, <3>3, AppendType
  <2> QED
    BY <1>1, <1>4, <2>1
<1>6. ASSUME NEW m \in Node, NEW q \in Node, m # n
      PROVE  chan'[m][q] \in Seq(Outbound(up, m, q))
  <2>1. CASE m = p /\ q = n
    BY <1>2, <1>4, <2>1
  <2>2. CASE ~(m = p /\ q = n)
    BY <1>1, <1>4, <1>6, <2>2
  <2> QED
    BY <2>1, <2>2
<1>7. \A m, q \in Node : chan'[m][q] \in Seq(Outbound(up, m, q))
  BY <1>5, <1>6
<1> QED
  BY <1>7 DEF Away, Outbound

LEMMA EchoOnWriteSink ==
    ASSUME NEW up, Trees(up), EchoInv(up), NEW p \in Node, OnWriteSink(p)
    PROVE  Away(up)' /\ Pending(up)'
<1>1. Away(up)'
  BY SinkAssumption, AwayTaken DEF EchoInv, RelayTypeInv, OnWriteSink
<1>2. Pending(up)'
  BY DEF EchoInv, Pending, Outbound, OnWriteSink, sensorVars, meshVars,
         tableVars
<1> QED
  BY <1>1, <1>2

LEMMA EchoOnWrite ==
    ASSUME NEW up, Trees(up), EchoInv(up), NEW n \in Node, NEW p \in Node,
           OnWrite(n, p)
    PROVE  Away(up)' /\ Pending(up)'
<1> DEFINE msg == Head(chan[p][n])
<1>0. /\ RelayTypeOK /\ LinksInv /\ InRange /\ Away(up)
      /\ chan[p][n] # << >> /\ ep[n][p] # "down"
      /\ UNCHANGED <<pc, idx, default_connections>>
  BY DEF EchoInv, RelayTypeInv, LinksInv, OnWrite, tableVars
<1>1. n # p
  BY <1>0, RadioAssumption DEF InRange
<1>2. msg \in Outbound(up, p, n)
  <2>1. chan[p][n] \in Seq(Outbound(up, p, n))
    BY <1>0 DEF Away
  <2> QED
    BY <1>0, <2>1, TailType
<1>3. Away(up)'
  <2>1. \/ chan' = [chan EXCEPT ![p][n] = Tail(@)]
        \/ \E lost : chan' = Relayed(n, p, msg, lost)
    BY DEF OnWrite
  <2> HIDE DEF msg
  <2>2. ASSUME NEW lost, chan' = Relayed(n, p, msg, lost)
        PROVE  Away(up)'
    BY <1>0, <1>1, <1>2, <2>2, AwayRelayed
  <2> QED
    BY <1>0, <2>1, <2>2, AwayTaken
<1> HIDE DEF msg
<1>4. ASSUME idx[n] \in SendableTo(n, FirstSlot(n, p)),
             NEW m \in Overwritten(n, msg)
      PROVE  m \in Outbound(up, n, default_connections[n][idx[n]])
  <2> DEFINE q == default_connections[n][idx[n]]
  <2>1. q \in Neighbours[n] /\ q \in Node /\ q # p
    BY <1>0, <1>4, SlotSentTo
  <2> HIDE DEF q
  <2>2. msg \in Outbound(up, n, q)
    BY <1>2, <2>1, OnwardOutbound
  <2>3. Own(n).timestamp \in Clock
    BY <1>0 DEF RelayTypeOK, Own
  <2>4. m \in Outbound(up, n, q)
    BY <1>4, <2>2, <2>3, StampedOutbound DEF Overwritten
  <2> QED
    BY <2>4 DEF q
<1>5. \/ UNCHANGED messages
      \/ /\ idx[n] \in SendableTo(n, FirstSlot(n, p))
         /\ \E m \in Overwritten(n, msg) :
                messages' = [messages EXCEPT ![n] = m]
  BY DEF OnWrite, msg
<1>6. \A k \in Node :
          \/ messages'[k] = messages[k]
          \/ /\ k = n
             /\ messages'[k] \in Outbound(up, n, default_connections[n][idx[n]])
  BY <1>0, <1>4, <1>5 DEF RelayTypeOK
<1>7. Pending(up)'
  BY <1>0, <1>6 DEF EchoInv, Pending, Outbound
<1> QED
  BY <1>3, <1>7

\* A slot about to be written to keeps its connection or loses it.
LEMMA PendingStays ==
    ASSUME NEW up, EchoInv(up), SlotsKept, UNCHANGED <<pc, idx, messages>>
    PROVE  Pending(up)'
<1> SUFFICES ASSUME NEW n \in Node, pc[n] = "write",
                    default_connections'[n][idx[n]] # NoPeer
             PROVE  messages[n] \in
                        Outbound(up, n, default_connections'[n][idx[n]])
  BY DEF Pending, Outbound
<1>1. /\ idx[n] \in 0 .. MAX_CONNECTIONS /\ idx[n] < num_connections[n]
      /\ num_connections[n] \in 0 .. MAX_CONNECTIONS
  BY DEF EchoInv, RelayTypeInv, RelayTypeOK, SensorTypeOK, TableTypeOK, MainOK
<1>2. idx[n] \in Slot /\ ~(idx[n] >= num_connections[n])
  BY <1>1, TableAssumption, SMT DEF Slot
<1>3. default_connections'[n][idx[n]] = default_connections[n][idx[n]]
  BY <1>2 DEF SlotsKept
<1> QED
  BY <1>3 DEF EchoInv, Pending

LEMMA EchoLinkLost ==
    ASSUME NEW up, Trees(up), EchoInv(up), NEW n \in Node, NEW p \in Node,
           LinkLost(n, p)
    PROVE  Away(up)' /\ Pending(up)'
<1>1. Pending(up)'
  <2>1. LinksInv /\ [RelayNext]_vars
    BY DEF EchoInv, RelayTypeInv, RelayNext
  <2> QED
    BY <2>1, LinksStep, PendingStays DEF LinkLost
<1>2. chan \in [Node -> [Node -> Seq(Message)]]
  BY DEF EchoInv, RelayTypeInv, RelayTypeOK
<1>3. \A m, q \in Node : chan'[m][q] = chan[m][q] \/ chan'[m][q] = << >>
  BY <1>2 DEF LinkLost
<1>4. \A S : << >> \in Seq(S)
  BY SMT
<1>5. \A m, q \in Node : chan'[m][q] \in Seq(Outbound(up, m, q))
  BY <1>3, <1>4 DEF EchoInv, Away
<1> QED
  BY <1>1, <1>5 DEF Away, Outbound

LEMMA EchoAside ==
    ASSUME NEW up, Trees(up), EchoInv(up), [RelayNext]_vars,
           UNCHANGED <<chan, pc, idx, messages>>
    PROVE  Away(up)' /\ Pending(up)'
<1>1. Pending(up)'
  BY LinksStep, PendingStays DEF EchoInv, RelayTypeInv
<1> QED
  BY <1>1 DEF EchoInv, Away, Outbound

LEMMA EchoStep ==
    ASSUME NEW up, Trees(up)
    PROVE  EchoInv(up) /\ [RelayNext]_vars => EchoInv(up)'
<1> SUFFICES ASSUME EchoInv(up), [RelayNext]_vars PROVE EchoInv(up)'
  OBVIOUS
<1>1. RelayTypeInv'
  BY RelayTypeStep DEF EchoInv
<1>2. CASE UNCHANGED <<chan, pc, idx, messages>>
  BY <1>1, <1>2, EchoAside DEF EchoInv
<1>3. ASSUME NEW n \in Node, MainStep(n) PROVE EchoInv(up)'
  <2>1. CASE SendWriteNull(n)
    BY <1>2, <2>1 DEF SendWriteNull, relayVars
  <2> QED
    BY <1>1, <1>3, <2>1, EchoMeasure, EchoSendCheck, EchoSendWrite
    DEF MainStep, EchoInv
<1>4. CASE UNCHANGED vars
  BY <1>2, <1>4 DEF vars, relayVars
<1>5. ASSUME NEW p \in Node, OnWriteSink(p) PROVE EchoInv(up)'
  BY <1>1, <1>5, EchoOnWriteSink DEF EchoInv
<1>6. ASSUME NEW n \in Node, NEW p \in Node, OnWrite(n, p) \/ LinkLost(n, p)
      PROVE  EchoInv(up)'
  BY <1>1, <1>6, EchoOnWrite, EchoLinkLost DEF EchoInv
<1>7. CASE UNCHANGED relayVars
  BY <1>2, <1>7 DEF relayVars
<1> QED
  BY <1>3, <1>4, <1>5, <1>6, <1>7 DEF RelayNext

LEMMA EchoInit ==
    ASSUME NEW up
    PROVE  SensorInit /\ RelayInit => EchoInv(up)
<1> SUFFICES ASSUME SensorInit, RelayInit PROVE EchoInv(up)
  OBVIOUS
<1>1. \A S : << >> \in Seq(S)
  BY SMT
<1>2. Away(up) /\ Pending(up)
  BY <1>1 DEF RelayInit, Away, Pending
<1> QED
  BY <1>2, RelayTypeInit DEF EchoInv

LEMMA AwayNoEcho ==
    ASSUME NEW up, Trees(up), EchoInv(up)
    PROVE  NoEcho
<1> SUFFICES ASSUME NEW n \in Node, NEW p \in Node,
                    NEW k \in 1 .. Len(chan[p][n]),
                    chan[p][n][k].nodeID = NodeId[n]
             PROVE  FALSE
  BY DEF NoEcho
<1>1. chan[p][n] \in Seq(Outbound(up, p, n))
  BY DEF EchoInv, Away
<1>2. chan[p][n][k] \in Outbound(up, p, n)
  BY <1>1
<1>3. up[n][n] = p
  BY <1>2 DEF Outbound
<1> QED
  BY <1>3, RadioAssumption DEF Trees, Rooted

\* On a network without cycles no SOURCE is ever sent a measurement of its own,
\* although redirect_message_SOURCE skips the slot a message came in by and
\* never looks at whose message it is: whatever connects, closes or is cut
\* short, and whatever a relay leaves in the messages[i] of a main thread.
THEOREM NoEchoCorrect ==
    ASSUME NEW up, Trees(up)
    PROVE  RelaySpec => []NoEcho
<1>1. SensorInit /\ RelayInit => EchoInv(up)
  BY EchoInit
<1>2. EchoInv(up) /\ [RelayNext]_vars => EchoInv(up)'
  BY EchoStep
<1>3. EchoInv(up) => NoEcho
  BY AwayNoEcho
<1> QED
  BY <1>1, <1>2, <1>3, PTL DEF RelaySpec

-----------------------------------------------------------------------------
(* Items in places, each there once but for a number of them. *)

\* The goods v in the places P are items of T, each there once, but for those
\* in at most c places.
Accounted(P, v, T, c) ==
    \E X \in SUBSET P :
        /\ IsFiniteSet(X) /\ Cardinality(X) <= c
        /\ \A x \in P \ X : v[x] \in T
        /\ \A x, y \in P \ X : v[x] = v[y] => x = y

\* Goods are moved: what is in a place q of Q was in the place f[q] of P, or
\* takes the place of something that was no item of T.
LEMMA Carried ==
    ASSUME NEW P, NEW v, NEW T, NEW c \in Nat, Accounted(P, v, T, c),
           NEW Q, NEW w, NEW f \in [Q -> P],
           \A q, r \in Q : f[q] = f[r] => q = r,
           \A q \in Q : w[q] = v[f[q]] \/ v[f[q]] \notin T
    PROVE  Accounted(Q, w, T, c)
<1>1. PICK X \in SUBSET P :
          /\ IsFiniteSet(X) /\ Cardinality(X) <= c
          /\ \A x \in P \ X : v[x] \in T
          /\ \A x, y \in P \ X : v[x] = v[y] => x = y
  BY DEF Accounted
<1> DEFINE Y == {q \in Q : f[q] \in X}
           g == [q \in Y |-> f[q]]
<1>2. g \in Injection(Y, X)
  BY DEF Injection, IsInjective
<1>3. IsFiniteSet(Y) /\ Cardinality(Y) <= Cardinality(X)
  <2> HIDE DEF Y, g
  <2> QED
    BY <1>1, <1>2, FS_Injection
<1>4. Cardinality(X) \in Nat /\ Cardinality(Y) \in Nat
  <2> HIDE DEF Y
  <2> QED
    BY <1>1, <1>3, FS_CardinalityType
<1>5. Cardinality(Y) <= c
  <2> HIDE DEF Y
  <2> QED
    BY <1>1, <1>3, <1>4
<1>6. \A q \in Q \ Y : f[q] \in P \ X /\ w[q] = v[f[q]]
  BY <1>1
<1>7. /\ \A q \in Q \ Y : w[q] \in T
      /\ \A q, r \in Q \ Y : w[q] = w[r] => q = r
  BY <1>1, <1>6
<1>8. Y \in SUBSET Q
  OBVIOUS
<1> HIDE DEF Y
<1> QED
  BY <1>3, <1>5, <1>7, <1>8 DEF Accounted

LEMMA Kept ==
    ASSUME NEW P, NEW v, NEW T, NEW c \in Nat, Accounted(P, v, T, c),
           NEW Q, NEW w, \A q \in Q : q \in P /\ w[q] = v[q]
    PROVE  Accounted(Q, w, T, c)
<1> DEFINE f == [q \in Q |-> q]
<1>1. f \in [Q -> P] /\ \A q \in Q : f[q] = q
  OBVIOUS
<1> HIDE DEF f
<1> QED
  BY <1>1, Carried

\* What was in the place z, or no item, is now in the place y.
LEMMA Renamed ==
    ASSUME NEW P, NEW v, NEW T, NEW c \in Nat, Accounted(P, v, T, c),
           NEW Q, NEW w, NEW y, NEW z \in P,
           \A q \in Q \ {y} : q \in P /\ q # z /\ w[q] = v[q],
           w[y] = v[z] \/ v[z] \notin T
    PROVE  Accounted(Q, w, T, c)
<1> DEFINE f == [q \in Q |-> IF q = y THEN z ELSE q]
<1>1. f \in [Q -> P] /\ \A q \in Q : f[q] = IF q = y THEN z ELSE q
  OBVIOUS
<1> HIDE DEF f
<1>2. \A q, r \in Q : f[q] = f[r] => q = r
  BY <1>1
<1>3. \A q \in Q : w[q] = v[f[q]] \/ v[f[q]] \notin T
  BY <1>1
<1> QED
  BY <1>1, <1>2, <1>3, Carried

\* One more place may hold anything if one more is allowed to.
LEMMA Charged ==
    ASSUME NEW Q, NEW w, NEW T, NEW c \in Nat, NEW z,
           Accounted(Q \ {z}, w, T, c)
    PROVE  Accounted(Q, w, T, c + 1)
<1>1. PICK X \in SUBSET (Q \ {z}) :
          /\ IsFiniteSet(X) /\ Cardinality(X) <= c
          /\ \A x \in (Q \ {z}) \ X : w[x] \in T
          /\ \A x, y \in (Q \ {z}) \ X : w[x] = w[y] => x = y
  BY DEF Accounted
<1> DEFINE Y == (X \cup {z}) \cap Q
<1>2. /\ IsFiniteSet(X \cup {z}) /\ Cardinality(X) \in Nat
      /\ Cardinality(X \cup {z}) <= Cardinality(X) + 1
      /\ Cardinality(X \cup {z}) \in Nat
  BY <1>1, FS_AddElement, FS_CardinalityType
<1>3. Y \in SUBSET (X \cup {z})
  OBVIOUS
<1>4. IsFiniteSet(Y) /\ Cardinality(Y) <= Cardinality(X \cup {z})
  BY <1>2, <1>3, FS_Subset
<1>5. Cardinality(Y) \in Nat
  BY <1>4, FS_CardinalityType
<1>6. Cardinality(Y) <= c + 1
  BY <1>1, <1>2, <1>4, <1>5
<1>7. Q \ Y \subseteq (Q \ {z}) \ X /\ Y \in SUBSET Q
  OBVIOUS
<1>8. /\ \A x \in Q \ Y : w[x] \in T
      /\ \A x, y \in Q \ Y : w[x] = w[y] => x = y
  BY <1>1, <1>7
<1> HIDE DEF Y
<1> QED
  BY <1>4, <1>6, <1>7, <1>8 DEF Accounted

\* One more place may hold what is an item only now.
LEMMA Produced ==
    ASSUME NEW Q, NEW w, NEW T, NEW U, NEW c \in Nat, NEW z, T \subseteq U,
           z \in Q => w[z] \in U \ T,
           Accounted(Q \ {z}, w, T, c)
    PROVE  Accounted(Q, w, U, c)
<1>1. PICK X \in SUBSET (Q \ {z}) :
          /\ IsFiniteSet(X) /\ Cardinality(X) <= c
          /\ \A x \in (Q \ {z}) \ X : w[x] \in T
          /\ \A x, y \in (Q \ {z}) \ X : w[x] = w[y] => x = y
  BY DEF Accounted
<1>2. /\ \A x \in Q \ X : w[x] \in U
      /\ \A x, y \in Q \ X : w[x] = w[y] => x = y
  BY <1>1
<1> QED
  BY <1>1, <1>2 DEF Accounted

LEMMA Afforded ==
    ASSUME NEW Q, NEW w, NEW T, NEW c \in Nat, NEW d \in Nat, c <= d,
           Accounted(Q, w, T, c)
    PROVE  Accounted(Q, w, T, d)
<1>1. PICK X \in SUBSET Q :
          /\ IsFiniteSet(X) /\ Cardinality(X) <= c
          /\ \A x \in Q \ X : w[x] \in T
          /\ \A x, y \in Q \ X : w[x] = w[y] => x = y
  BY DEF Accounted
<1>2. Cardinality(X) \in Nat
  BY <1>1, FS_CardinalityType
<1>3. Cardinality(X) <= d
  BY <1>1, <1>2
<1> QED
  BY <1>1, <1>3 DEF Accounted

\* The items among what is in a queue.
Among(s, T) == {m \in {s[k] : k \in 1 .. Len(s)} : m \in T}

\* A queue lies in the places of b, from the first on.
Lies(s, b, P, v) == \A k \in 1 .. Len(s) : <<b, k>> \in P /\ v[<<b, k>>] = s[k]

\* A queue that lies in such places repeats itself no more often than that.
LEMMA Repeats ==
    ASSUME NEW P, NEW v, NEW T, NEW c \in Nat, Accounted(P, v, T, c),
           NEW S, NEW s \in Seq(S), NEW b, Lies(s, b, P, v)
    PROVE  Len(s) <= Cardinality(Among(s, T)) + c
<1>1. PICK X \in SUBSET P :
          /\ IsFiniteSet(X) /\ Cardinality(X) <= c
          /\ \A x \in P \ X : v[x] \in T
          /\ \A x, y \in P \ X : v[x] = v[y] => x = y
  BY DEF Accounted
<1> DEFINE K == 1 .. Len(s)
           A == {k \in K : <<b, k>> \in X}
           B == K \ A
           D == {k \in K : s[k] \in T}
           M == Among(s, T)
<1>2. Len(s) \in Nat
  OBVIOUS
<1>3. IsFiniteSet(K) /\ Cardinality(K) = Len(s)
  <2>1. 1 \in Int /\ Len(s) \in Int
    BY <1>2
  <2>2. /\ IsFiniteSet(1 .. Len(s))
        /\ Cardinality(1 .. Len(s)) =
               IF 1 > Len(s) THEN 0 ELSE Len(s) - 1 + 1
    BY <2>1, FS_Interval
  <2>3. (IF 1 > Len(s) THEN 0 ELSE Len(s) - 1 + 1) = Len(s)
    BY <1>2, SMT
  <2> QED
    BY <2>2, <2>3
<1>4. A \in SUBSET K /\ B \in SUBSET K /\ D \in SUBSET K
      /\ A \cup B = K /\ A \cap B = {}
  OBVIOUS
<1>5. Cardinality(A) <= Cardinality(X)
  <2> DEFINE f == [k \in A |-> <<b, k>>]
  <2>1. f \in Injection(A, X)
    BY DEF Injection, IsInjective
  <2> HIDE DEF A, f
  <2> QED
    BY <1>1, <2>1, FS_Injection
<1>6. \A k \in B : s[k] \in M /\ \A j \in B : s[j] = s[k] => j = k
  BY <1>1 DEF Among, Lies
<1>7. M = {s[k] : k \in D}
  BY DEF Among
<1> HIDE DEF K, A, B, D, M
<1>8. /\ IsFiniteSet(A) /\ IsFiniteSet(B) /\ IsFiniteSet(D)
      /\ Cardinality(A) \in Nat /\ Cardinality(B) \in Nat
      /\ Cardinality(X) \in Nat
  BY <1>1, <1>3, <1>4, FS_Subset, FS_CardinalityType
<1>9. IsFiniteSet(M)
  <2> DEFINE f == [k \in D |-> s[k]]
  <2>1. f \in Surjection(D, M)
    BY <1>7 DEF Surjection
  <2> HIDE DEF f
  <2> QED
    BY <1>8, <2>1, FS_Surjection
<1>10. Cardinality(B) <= Cardinality(M) /\ Cardinality(M) \in Nat
  <2> DEFINE f == [k \in B |-> s[k]]
  <2>1. f \in Injection(B, M)
    BY <1>6 DEF Injection, IsInjective
  <2> HIDE DEF f
  <2> QED
    BY <1>9, <2>1, FS_Injection, FS_CardinalityType
<1>11. Cardinality(K) = Cardinality(A) + Cardinality(B)
  <2>1. Cardinality(K) = Cardinality(A) + Cardinality(B) - Cardinality({})
    BY <1>4, <1>8, FS_Union
  <2> QED
    BY <1>8, <2>1, FS_EmptySet
<1>12. Len(s) <= Cardinality(M) + c
  BY <1>1, <1>3, <1>5, <1>8, <1>10, <1>11
<1> QED
  BY <1>12 DEF M

-----------------------------------------------------------------------------
(* What is printed twice, or printed wrongly, was paid for by a failure. *)

\* up leads every board towards the sink.
SinkTree(up) == Rooted(up, Sink, Neighbours)

\* What n has handed on towards the sink and nobody has taken over; the sink
\* hands on to the terminal.
Onward(up, n) == IF n = Sink THEN printed ELSE chan[n][up[n]]

\* n may still send its measurement towards the sink: it is in the loop, which
\* has not passed the slot of the link that way.
Unsent(up, n) == /\ pc[n] # "sleep"
                 /\ \A i \in Slots(n, up[n]) : ~(i < idx[n])
Ready(up, n) == IF pc[n] = "write" /\ idx[n] \in Slots(n, up[n])
                THEN messages[n] ELSE Own(n)

\* The places a measurement passes on its way to the terminal: the main thread
\* (0) and the queue (1, 2, ...) of every board.  While a link is gone before
\* its host has cleared the slot there is one place more (-1): once a new link
\* is in a later slot the loop sends again what it has sent.
Holds(up, n, k) ==
    \/ (n = Sink \/ up[n] \in Node) /\ k \in 1 .. Len(Onward(up, n))
    \/ k = 0 /\ up[n] \in Node /\ Unsent(up, n)
    \/ k = -1 /\ up[n] \in Gone(n)
Nothing == [nodeID |-> 0, timestamp |-> 0]
Item(up, n, k) == IF k = 0 THEN Ready(up, n)
                  ELSE IF k = -1 THEN Nothing ELSE Onward(up, n)[k]

Place == Node \X Int
Stock(up) == {x \in Place : Holds(up, x[1], x[2])}
Goods(up) == [x \in Place |-> Item(up, x[1], x[2])]
Items == {m \in Message : Taken(m)}

Costs(up) == Accounted(Stock(up), Goods(up), Items, faults)

DamageInv(up) == RelayTypeInv /\ Costs(up)

LEMMA TreeFacts ==
    ASSUME NEW up, SinkTree(up)
    PROVE  /\ up \in [Node -> Node \cup {NoPeer}] /\ NoPeer \notin Node
           /\ Sink \in Node /\ up[Sink] = NoPeer
           /\ \A n \in Node : up[n] \in Node => n # Sink
           /\ \A n \in Node : n \notin Neighbours[n]
           /\ \A n, p \in Node : p \in Neighbours[n] => up[n] = p \/ up[p] = n
           /\ \A n, p \in Node : up[n] = p => up[p] # n
  BY RadioAssumption, SinkAssumption DEF SinkTree, Rooted

LEMMA PlaceFacts ==
    ASSUME NEW up, NEW n \in Node, NEW k \in Int
    PROVE  /\ <<n, k>> \in Place
           /\ <<n, k>> \in Stock(up) <=> Holds(up, n, k)
           /\ Goods(up)[<<n, k>>] = Item(up, n, k)
  BY DEF Place, Stock, Goods

\* In a primed state.
LEMMA PlaceFactsNext ==
    ASSUME NEW up, NEW n \in Node, NEW k \in Int
    PROVE  /\ <<n, k>> \in Stock(up)' <=> Holds(up, n, k)'
           /\ Goods(up)'[<<n, k>>] = Item(up, n, k)'
  BY DEF Place, Stock, Goods

\* What the step leaves of the places of n holds what it held; z is the place,
\* if any, that may hold something else.
QueueKept(up, n) ==
    n = Sink \/ up[n] \in Node =>
        Onward(up, n)' = Onward(up, n) \/ Onward(up, n)' = << >>
MainKept(up, n, z) ==
    /\ up[n] \in Node /\ Unsent(up, n)' /\ z # <<n, 0>> =>
           Unsent(up, n) /\ Ready(up, n)' = Ready(up, n)
    /\ (up[n] \in Gone(n))' /\ z # <<n, -1>> => up[n] \in Gone(n)

LEMMA StockKept ==
    ASSUME NEW up, SinkTree(up), NEW z, NEW n \in Node, NEW k \in Int,
           k > 0 => QueueKept(up, n), MainKept(up, n, z),
           <<n, k>> # z, Holds(up, n, k)'
    PROVE  Holds(up, n, k) /\ Item(up, n, k)' = Item(up, n, k)
<1>1. CASE k = 0 /\ up[n] \in Node /\ Unsent(up, n)'
  BY <1>1 DEF MainKept, Holds, Item
<1>2. CASE k = -1 /\ (up[n] \in Gone(n))'
  BY <1>2 DEF MainKept, Holds, Item, Nothing
<1>3. CASE (n = Sink \/ up[n] \in Node) /\ k \in 1 .. Len(Onward(up, n)')
  <2>1. k # 0 /\ k # -1 /\ k > 0 /\ ~(k \in 1 .. Len(<< >>))
    BY <1>3, SMT
  <2>2. Onward(up, n)' = Onward(up, n)
    BY <1>3, <2>1 DEF QueueKept
  <2> QED
    BY <1>3, <2>1, <2>2 DEF Holds, Item
<1> QED
  BY <1>1, <1>2, <1>3 DEF Holds

LEMMA ItemsSame == UNCHANGED counter => Items' = Items
  BY DEF Items, Taken

\* No place for anything: the sink has no main thread.
Nowhere == <<Sink, 0>>

LEMMA FaultCount == RelayTypeOK => faults \in Nat /\ faults + 1 \in Nat
  BY PoolAssumption, SMT DEF RelayTypeOK, SensorTypeOK, TableTypeOK, LinkTypeOK

LEMMA NothingAtSink ==
    ASSUME NEW up, SinkTree(up)
    PROVE  ~Holds(up, Sink, 0)'
<1>1. ~(0 \in 1 .. Len(Onward(up, Sink)'))
  BY SMT
<1> QED
  BY <1>1, TreeFacts DEF Holds

LEMMA CostsBut ==
    ASSUME NEW up, SinkTree(up), DamageInv(up), NEW z,
           \A n \in Node : QueueKept(up, n) /\ MainKept(up, n, z)
    PROVE  Accounted(Stock(up)' \ {z}, Goods(up)', Items, faults)
<1>1. faults \in Nat
  BY FaultCount DEF DamageInv, RelayTypeInv
<1>2. Accounted(Stock(up), Goods(up), Items, faults)
  BY DEF DamageInv, Costs
<1>3. \A q \in Stock(up)' \ {z} :
          q \in Stock(up) /\ Goods(up)'[q] = Goods(up)[q]
  <2> TAKE q \in Stock(up)' \ {z}
  <2>1. PICK n \in Node, k \in Int : q = <<n, k>>
    BY DEF Stock, Place
  <2> QED
    BY <2>1, StockKept, PlaceFacts, PlaceFactsNext
<1> QED
  BY <1>1, <1>2, <1>3, Kept, Zenon

\* Whatever is in place z, if anything may be there, is paid for.
LEMMA CostsBy ==
    ASSUME NEW up, SinkTree(up), RelayTypeOK, NEW z, UNCHANGED counter,
           Accounted(Stock(up)' \ {z}, Goods(up)', Items, faults),
           \/ z = Nowhere /\ faults' \in {faults, faults + 1}
           \/ faults' = faults + 1
    PROVE  Costs(up)'
<1>1. /\ faults \in Nat /\ faults + 1 \in Nat /\ faults <= faults
      /\ faults <= faults + 1
  BY FaultCount
<1>2. Accounted(Stock(up)', Goods(up)', Items, faults + 1)
  BY <1>1, Charged, Zenon
<1>3. CASE z = Nowhere
  <2>1. z \notin Stock(up)'
    BY <1>3, TreeFacts, PlaceFactsNext, NothingAtSink DEF Nowhere
  <2>2. Stock(up)' \ {z} = Stock(up)'
    BY <2>1
  <2> QED
    BY <1>1, <1>2, <2>2, ItemsSame DEF Costs
<1> QED
  BY <1>1, <1>2, <1>3, ItemsSame DEF Costs

LEMMA CostsKept ==
    ASSUME NEW up, SinkTree(up), DamageInv(up), NEW z, UNCHANGED counter,
           \A n \in Node : QueueKept(up, n) /\ MainKept(up, n, z),
           \/ z = Nowhere /\ faults' \in {faults, faults + 1}
           \/ faults' = faults + 1
    PROVE  Costs(up)'
  BY CostsBut, CostsBy DEF DamageInv, RelayTypeInv

\* What was in place z, or no item, is now in place y.
LEMMA CostsRenamed ==
    ASSUME NEW up, SinkTree(up), DamageInv(up), UNCHANGED <<counter, faults>>,
           NEW y, NEW z \in Stock(up),
           \A n \in Node, k \in Int :
               Holds(up, n, k)' /\ <<n, k>> # y =>
                   /\ Holds(up, n, k) /\ <<n, k>> # z
                   /\ Item(up, n, k)' = Item(up, n, k),
           Goods(up)'[y] = Goods(up)[z] \/ Goods(up)[z] \notin Items
    PROVE  Costs(up)'
<1>1. faults \in Nat
  BY FaultCount DEF DamageInv, RelayTypeInv
<1>2. Accounted(Stock(up), Goods(up), Items, faults)
  BY DEF DamageInv, Costs
<1>3. \A q \in Stock(up)' \ {y} :
          q \in Stock(up) /\ q # z /\ Goods(up)'[q] = Goods(up)[q]
  <2> TAKE q \in Stock(up)' \ {y}
  <2>1. PICK n \in Node, k \in Int : q = <<n, k>>
    BY DEF Stock, Place
  <2> QED
    BY <2>1, PlaceFacts, PlaceFactsNext
<1> DEFINE P == Stock(up)
           v == Goods(up)
           Q == Stock(up)'
           w == Goods(up)'
<1>4. /\ z \in P /\ Accounted(P, v, Items, faults)
      /\ \A q \in Q \ {y} : q \in P /\ q # z /\ w[q] = v[q]
      /\ w[y] = v[z] \/ v[z] \notin Items
  BY <1>2, <1>3
<1> HIDE DEF P, v, Q, w
<1>5. Accounted(Q, w, Items, faults)
  BY <1>1, <1>4, Renamed
<1> QED
  BY <1>5, ItemsSame DEF Costs, Q, w

\* A board whose main thread, links and slots are left alone.
LEMMA MainSame ==
    ASSUME NEW up, NEW z, NEW m \in Node,
           pc'[m] = pc[m], idx'[m] = idx[m], counter'[m] = counter[m],
           messages'[m] = messages[m] \/ z = <<m, 0>>,
           Slots(m, up[m])' = Slots(m, up[m]), Gone(m)' = Gone(m)
    PROVE  MainKept(up, m, z)
  BY DEF MainKept, Unsent, Ready, Own

LEMMA SameLinks ==
    ASSUME UNCHANGED <<ep, default_connections, num_connections>>
    PROVE  \A n, q : Slots(n, q)' = Slots(n, q) /\ Gone(n)' = Gone(n)
  BY DEF Slots, Gone, LinkGone

LEMMA SameQueues ==
    ASSUME NEW up, NEW n, UNCHANGED <<chan, printed>>
    PROVE  QueueKept(up, n)
  BY DEF QueueKept, Onward

\* A measurement that is taken is one that was not taken before.
LEMMA CostsMeasure ==
    ASSUME NEW up, SinkTree(up), DamageInv(up), NEW n \in Node, Measure(n)
    PROVE  Costs(up)'
<1> DEFINE z == <<n, 0>>
<1>1. /\ RelayTypeOK /\ n # Sink /\ counter[n] \in Clock
      /\ counter \in [Node -> Clock] /\ counter' = [counter EXCEPT ![n] = @ + 1]
      /\ pc[n] = "sleep" /\ pc'[n] # "write"
      /\ \A m \in Node : m # n => pc'[m] = pc[m] /\ counter'[m] = counter[m]
      /\ UNCHANGED <<chan, printed, idx, messages, faults, ep, halted,
                     default_connections, num_connections>>
  BY DEF DamageInv, RelayTypeInv, RelayTypeOK, Measure, Source, sensorVars,
         meshVars, linkVars, tableVars
<1>2. RelayTypeOK'
  BY RelayTypeStep DEF DamageInv, RelayTypeInv, RelayNext, MainStep
<1>3. counter[n] \in Nat /\ counter'[n] = counter[n] + 1
  BY <1>1, ClockType
<1>4. \A m \in Node : QueueKept(up, m) /\ MainKept(up, m, z)
  <2> TAKE m \in Node
  <2>1. CASE m # n
    BY <1>1, <2>1, SameLinks, SameQueues, MainSame
  <2>2. CASE m = n
    BY <1>1, <2>2, SameLinks, SameQueues DEF MainKept
  <2> QED
    BY <2>1, <2>2
<1>5. Accounted(Stock(up)' \ {z}, Goods(up)', Items, faults)
  BY <1>4, CostsBut
<1>6. Own(n)' \in Items' \ Items
  <2>1. Own(n)' \in Message
    <3>1. Own(n)' = [nodeID |-> NodeId[n], timestamp |-> counter'[n]]
      BY DEF Own
    <3> QED
      BY <1>1, <1>2, <3>1, RelayAssumption DEF RelayTypeOK, Message, Source
  <2>2. /\ Own(n)'.nodeID = NodeId[n]
        /\ Own(n)'.timestamp = counter[n] + 1
    BY <1>3 DEF Own
  <2>3. /\ counter[n] + 1 \in 1 .. counter'[n]
        /\ ~(counter[n] + 1 \in 1 .. counter[n])
    BY <1>3
  <2>4. Own(n)' \in Items'
    BY <1>1, <2>1, <2>2, <2>3 DEF Items, Taken
  <2>5. ASSUME Taken(Own(n)') PROVE FALSE
    <3>1. PICK m \in Node : /\ NodeId[m] = Own(n)'.nodeID
                            /\ Own(n)'.timestamp \in 1 .. counter[m]
      BY <2>5 DEF Taken
    <3>2. m = n
      BY <2>2, <3>1, RelayAssumption
    <3> QED
      BY <2>2, <2>3, <3>1, <3>2
  <2> QED
    BY <2>4, <2>5 DEF Items
<1>7. Items \subseteq Items'
  <2> SUFFICES ASSUME NEW m \in Message, Taken(m) PROVE Taken(m)'
    BY DEF Items
  <2>1. PICK q \in Node \ {Sink} : NodeId[q] = m.nodeID
                                   /\ m.timestamp \in 1 .. counter[q]
    BY DEF Taken
  <2>2. counter[q] \in Nat
        /\ (counter'[q] = counter[q] \/ counter'[q] = counter[q] + 1)
    BY <1>1, <1>3, ClockType
  <2>3. m.timestamp \in 1 .. counter'[q]
    BY <2>1, <2>2
  <2> QED
    BY <2>1, <2>3 DEF Taken
<1>8. Goods(up)'[z] = Own(n)'
  <2>1. Goods(up)'[z] = Item(up, n, 0)'
    BY PlaceFactsNext
  <2>2. Item(up, n, 0)' = Ready(up, n)'
    BY DEF Item
  <2>3. Ready(up, n)' = Own(n)'
    BY <1>1 DEF Ready
  <2> QED
    BY <2>1, <2>2, <2>3
<1>9. faults \in Nat
  BY <1>1, FaultCount
<1> DEFINE Q == Stock(up)'
           w == Goods(up)'
           U == Items'
<1>10. /\ Items \subseteq U /\ w[z] \in U \ Items
       /\ Accounted(Q \ {z}, w, Items, faults)
  BY <1>5, <1>6, <1>7, <1>8
<1> HIDE DEF Q, w, U, z
<1>11. Accounted(Q, w, U, faults)
  BY <1>9, <1>10, Produced
<1> QED
  BY <1>1, <1>11 DEF Costs, Q, w, U

LEMMA CostsSendCheck ==
    ASSUME NEW up, SinkTree(up), DamageInv(up), NEW n \in Node, SendCheck(n)
    PROVE  Costs(up)'
<1>1. /\ UNCHANGED <<chan, printed, counter, faults, ep, default_connections,
                     num_connections>>
      /\ \A m \in Node : m # n => /\ pc'[m] = pc[m] /\ idx'[m] = idx[m]
                                  /\ messages'[m] = messages[m]
      /\ pc[n] = "check" /\ idx[n] \in Int
      /\ \/ pc'[n] = "sleep"
         \/ pc'[n] = "check" /\ idx'[n] = idx[n] + 1
         \/ pc'[n] = "write" /\ idx'[n] = idx[n] /\ messages'[n] = Own(n)
  BY DEF DamageInv, RelayTypeInv, RelayTypeOK, SendCheck, sensorVars, meshVars,
         linkVars, tableVars
<1>2. \A m \in Node : MainKept(up, m, Nowhere)
  <2> TAKE m \in Node
  <2>1. CASE m # n
    BY <1>1, <2>1, SameLinks, MainSame
  <2>2. CASE m = n
    <3>1. \A q : Slots(n, q)' = Slots(n, q) /\ Gone(n)' = Gone(n)
      BY <1>1, SameLinks
    <3>2. Ready(up, n) = Own(n) /\ Own(n)' = Own(n)
      BY <1>1 DEF Ready, Own
    <3>3. Unsent(up, n)' => Ready(up, n)' = Own(n)
      BY <1>1, <3>2 DEF Unsent, Ready
    <3>4. \A i \in Slots(n, up[n]) : i \in Int
      BY TableAssumption DEF Slots, Slot
    <3>5. \A i \in Int : i < idx[n] => i < idx[n] + 1
      BY <1>1
    <3>6. Unsent(up, n)' => Unsent(up, n)
      BY <1>1, <3>1, <3>4, <3>5 DEF Unsent
    <3> QED
      BY <2>2, <3>1, <3>2, <3>3, <3>6 DEF MainKept
  <2> QED
    BY <2>1, <2>2
<1> QED
  BY <1>1, <1>2, SameQueues, CostsKept

\* A write toward the sink moves the measurement from the main thread to the
\* end of the queue.  A loop that has passed the slot writes it no more, as the
\* link is in no other slot.
LEMMA CostsSendWrite ==
    ASSUME NEW up, SinkTree(up), DamageInv(up), NEW n \in Node, SendWrite(n)
    PROVE  Costs(up)'
<1> DEFINE d == default_connections[n][idx[n]]
           L == Len(chan[n][d])
<1>0. RelayTypeOK /\ LinksInv /\ MainOK /\ TableMatchesLinks
  BY DEF DamageInv, RelayTypeInv, LinksInv, SensorInv, TableInv
<1>1. /\ UNCHANGED <<printed, counter, ep, default_connections, num_connections,
                     messages>>
      /\ \A m \in Node : m # n => pc'[m] = pc[m] /\ idx'[m] = idx[m]
      /\ pc[n] = "write" /\ pc'[n] = "check" /\ idx'[n] = idx[n] + 1
      /\ d # NoPeer
  BY <1>0 DEF RelayTypeOK, SendWrite, tableVars
<1>2. /\ idx[n] \in Int /\ idx[n] \in Slot /\ idx[n] < num_connections[n]
      /\ n # Sink
  <2>1. /\ idx[n] \in 0 .. MAX_CONNECTIONS /\ idx[n] < num_connections[n]
        /\ num_connections[n] \in 0 .. MAX_CONNECTIONS /\ n # Sink
    BY <1>0, <1>1
    DEF RelayTypeOK, SensorTypeOK, TableTypeOK, MainOK, Source
  <2> QED
    BY <2>1, TableAssumption, SMT DEF Slot
<1>3. d \in Node /\ idx[n] \in Slots(n, d)
  BY <1>0, <1>1, <1>2, SlotInRange
<1>4. /\ chan \in [Node -> [Node -> Seq(Message)]]
      /\ messages[n] \in Message /\ chan[n][d] \in Seq(Message)
  BY <1>0, <1>3 DEF RelayTypeOK
<1>5. L \in Nat
  BY <1>4
<1>6. \/ UNCHANGED chan /\ faults' \in {faults, faults + 1}
      \/ /\ chan' = [chan EXCEPT ![n][d] = Append(chan[n][d], messages[n])]
         /\ faults' = faults
  <2>1. \/ Fault("write") /\ UNCHANGED chan
        \/ NoFault /\ chan' = [chan EXCEPT ![n][d] = Post(@, n, d, messages[n])]
    BY DEF SendWrite
  <2> HIDE DEF d
  <2>2. chan = [chan EXCEPT ![n][d] = chan[n][d]]
    BY <1>3, <1>4
  <2> QED
    BY <2>1, <2>2 DEF Post, Fault, NoFault
<1>7. \A q : Slots(n, q)' = Slots(n, q) /\ Gone(n)' = Gone(n)
  BY <1>1, SameLinks
<1>8. ASSUME Unsent(up, n)'
      PROVE  /\ idx[n] \notin Slots(n, up[n]) /\ Unsent(up, n)
             /\ Ready(up, n)' = Ready(up, n)
  <2>1. \A i \in Slots(n, up[n]) : i \in Int /\ ~(i < idx[n] + 1)
    BY <1>1, <1>7, <1>8, TableAssumption DEF Unsent, Slots, Slot
  <2>2. \A i \in Int : ~(i < idx[n] + 1) => ~(i < idx[n]) /\ i # idx[n]
    BY <1>2
  <2>3. idx[n] \notin Slots(n, up[n]) /\ Unsent(up, n)
    BY <1>1, <2>1, <2>2 DEF Unsent
  <2> QED
    BY <1>1, <2>3 DEF Ready, Own
<1> HIDE DEF d, L
<1>9. \A m \in Node : MainKept(up, m, Nowhere)
  <2> TAKE m \in Node
  <2>1. CASE m # n
    BY <1>1, <2>1, SameLinks, MainSame
  <2>2. CASE m = n
    BY <1>7, <1>8, <2>2 DEF MainKept
  <2> QED
    BY <2>1, <2>2
<1>10. CASE UNCHANGED chan /\ faults' \in {faults, faults + 1}
  BY <1>1, <1>9, <1>10, SameQueues, CostsKept
<1>11. ASSUME chan' = [chan EXCEPT ![n][d] = Append(chan[n][d], messages[n])],
              faults' = faults
       PROVE  Costs(up)'
  <2>1. /\ \A m, q \in Node : <<m, q>> # <<n, d>> => chan'[m][q] = chan[m][q]
        /\ chan'[n][d] = Append(chan[n][d], messages[n])
    BY <1>3, <1>4, <1>11
  <2>2. \A m \in Node :
            (m = Sink \/ up[m] \in Node) /\ ~(m = n /\ up[n] = d) =>
                Onward(up, m)' = Onward(up, m)
    BY <1>1, <2>1 DEF Onward
  <2>3. CASE up[n] # d
    BY <1>1, <1>9, <1>11, <2>2, <2>3, CostsKept DEF QueueKept
  <2>4. CASE up[n] = d
    <3> DEFINE z == <<n, 0>>
               y == <<n, L + 1>>
    <3>1. ~(Unsent(up, n)') /\ Unsent(up, n) /\ Ready(up, n) = messages[n]
      <4>1. \A i \in Slots(n, up[n]) : i = idx[n]
        BY <1>0, <1>3, <2>4 DEF TableMatchesLinks
      <4>2. ~(idx[n] < idx[n])
        BY <1>2
      <4>3. Unsent(up, n)
        BY <1>1, <4>1, <4>2 DEF Unsent
      <4> QED
        BY <1>1, <1>3, <1>8, <2>4, <4>3 DEF Ready
    <3>2. /\ Onward(up, n) = chan[n][d]
          /\ Onward(up, n)' = Append(chan[n][d], messages[n])
      BY <1>2, <2>1, <2>4 DEF Onward
    <3>3. /\ Len(Append(chan[n][d], messages[n])) = L + 1
          /\ Append(chan[n][d], messages[n])[L + 1] = messages[n]
          /\ \A k \in 1 .. L : Append(chan[n][d], messages[n])[k] = chan[n][d][k]
      BY <1>4 DEF L
    <3>4. z \in Stock(up) /\ Goods(up)[z] = messages[n]
      <4>1. Holds(up, n, 0) /\ Item(up, n, 0) = messages[n]
        BY <1>3, <2>4, <3>1 DEF Holds, Item
      <4> QED
        BY <4>1, PlaceFacts
    <3>5. Goods(up)'[y] = messages[n]
      <4> SUFFICES ASSUME NEW k \in Int, k = L + 1
                   PROVE  Goods(up)'[<<n, k>>] = messages[n]
        BY <1>5
      <4>1. k # 0 /\ k # -1
        BY <1>5
      <4>2. Item(up, n, k)' = messages[n]
        BY <3>2, <3>3, <4>1 DEF Item
      <4> QED
        BY <4>2, PlaceFactsNext
    <3>6. ASSUME NEW m \in Node, NEW k \in Int, Holds(up, m, k)',
                 <<m, k>> # y
          PROVE  /\ Holds(up, m, k) /\ <<m, k>> # z
                 /\ Item(up, m, k)' = Item(up, m, k)
      <4>1. CASE m # n
        <5>1. QueueKept(up, m) /\ MainKept(up, m, Nowhere)
          BY <1>9, <2>2, <4>1 DEF QueueKept
        <5>2. <<m, k>> # Nowhere
          BY <3>6, NothingAtSink DEF Nowhere
        <5>3. <<m, k>> # z
          BY <4>1
        <5> QED
          BY <3>6, <5>1, <5>2, <5>3, StockKept
      <4>2. CASE m = n
        <5>1. k # 0
          <6>1. ~(0 \in 1 .. Len(Onward(up, n)'))
            BY SMT
          <6> QED
            BY <3>1, <3>6, <4>2, <6>1 DEF Holds
        <5>2. CASE k = -1
          BY <1>7, <3>6, <4>2, <5>2 DEF Holds, Item, Nothing
        <5>3. CASE k # -1
          <6>1. k \in 1 .. L + 1 /\ k # L + 1
            BY <3>2, <3>3, <3>6, <4>2, <5>1, <5>3 DEF Holds
          <6>2. k \in 1 .. L
            BY <1>5, <6>1
          <6>3. Item(up, n, k) = chan[n][d][k]
                /\ Item(up, n, k)' = chan[n][d][k]
            BY <3>2, <3>3, <5>1, <5>3, <6>2 DEF Item
          <6>4. Holds(up, n, k)
            BY <1>3, <2>4, <3>2, <6>2 DEF Holds, L
          <6> QED
            BY <4>2, <5>1, <6>3, <6>4
        <5> QED
          BY <5>1, <5>2, <5>3, <4>2
      <4> QED
        BY <4>1, <4>2
    <3>7. Goods(up)'[y] = Goods(up)[z] \/ Goods(up)[z] \notin Items
      BY <3>4, <3>5
    <3> HIDE DEF y, z
    <3> QED
      BY <1>1, <1>11, <3>4, <3>6, <3>7, CostsRenamed
  <2> QED
    BY <2>3, <2>4
<1> QED
  BY <1>6, <1>10, <1>11

\* The first message of the queue of p is handed to n, which passes it on or
\* drops it: of what was in the queues nothing is there twice.
LEMMA CostsHop ==
    ASSUME NEW up, SinkTree(up), DamageInv(up), NEW z, UNCHANGED counter,
           NEW n \in Node, NEW p \in Node, n # p, up[p] = n,
           chan[p][n] # << >>, chan'[p][n] = Tail(chan[p][n]),
           n = Sink \/ up[n] \in Node =>
               \/ Onward(up, n)' = Onward(up, n)
               \/ Onward(up, n)' = Append(Onward(up, n), Head(chan[p][n])),
           \A m \in Node : /\ MainKept(up, m, z)
                           /\ m # n /\ m # p => QueueKept(up, m),
           \/ z = Nowhere /\ faults' \in {faults, faults + 1}
           \/ faults' = faults + 1
    PROVE  Costs(up)'
<1> DEFINE L == Len(Onward(up, n))
           f == [q \in Stock(up)' \ {z} |->
                    IF q[1] = p /\ q[2] > 0 THEN <<p, q[2] + 1>>
                    ELSE IF q[1] = n /\ q[2] = L + 1 THEN <<p, 1>> ELSE q]
<1>1. /\ RelayTypeOK /\ faults \in Nat /\ p # Sink
      /\ Accounted(Stock(up), Goods(up), Items, faults)
      /\ chan \in [Node -> [Node -> Seq(Message)]] /\ printed \in Seq(Message)
  BY FaultCount, TreeFacts DEF DamageInv, RelayTypeInv, RelayTypeOK, Costs
<1>2. /\ Onward(up, p) = chan[p][n] /\ Onward(up, p)' = Tail(chan[p][n])
      /\ chan[p][n] \in Seq(Message)
  BY <1>1 DEF Onward
<1>3. n = Sink \/ up[n] \in Node => Onward(up, n) \in Seq(Message)
  BY <1>1 DEF Onward
<1>4. /\ Len(chan[p][n]) \in Nat /\ Len(chan[p][n]) >= 1
      /\ Len(Tail(chan[p][n])) = Len(chan[p][n]) - 1
      /\ \A k \in 1 .. Len(chan[p][n]) - 1 : Tail(chan[p][n])[k] = chan[p][n][k + 1]
      /\ Head(chan[p][n]) = chan[p][n][1]
  BY <1>2, SMT
<1>5. ASSUME NEW m \in Node, NEW k \in Int, Holds(up, m, k)', <<m, k>> # z
      PROVE  \/ /\ m = p /\ k > 0
                /\ Holds(up, p, k + 1)
                /\ Item(up, m, k)' = Item(up, p, k + 1)
             \/ /\ m = n /\ k = L + 1 /\ k > 0
                /\ Holds(up, p, 1)
                /\ Item(up, m, k)' = Item(up, p, 1)
             \/ /\ ~(m = p /\ k > 0) /\ ~(m = n /\ k = L + 1)
                /\ Holds(up, m, k)
                /\ Item(up, m, k)' = Item(up, m, k)
  <2>1. CASE m = p /\ k > 0
    <3>1. k \in 1 .. Len(chan[p][n]) - 1
      BY <1>2, <1>4, <1>5, <2>1 DEF Holds
    <3>2. /\ k + 1 \in 1 .. Len(chan[p][n]) /\ k # 0 /\ k # -1
          /\ k + 1 # 0 /\ k + 1 # -1
      BY <1>4, <3>1
    <3>3. Holds(up, p, k + 1)
      BY <1>2, <3>2 DEF Holds
    <3>4. Item(up, p, k + 1) = chan[p][n][k + 1]
      BY <1>2, <3>2 DEF Item
    <3>5. Item(up, p, k)' = Tail(chan[p][n])[k]
      BY <1>2, <3>2 DEF Item
    <3> QED
      BY <1>4, <2>1, <3>1, <3>3, <3>4, <3>5
  <2>2. CASE m = n /\ k > 0
    <3>1. k # 0 /\ k # -1
      BY <2>2
    <3>2. (n = Sink \/ up[n] \in Node) /\ k \in 1 .. Len(Onward(up, n)')
      BY <1>5, <2>2, <3>1 DEF Holds
    <3>3. L \in Nat /\ Onward(up, n) \in Seq(Message)
      BY <1>3, <3>2
    <3>4. Head(chan[p][n]) \in Message
      BY <1>2, TailType
    <3>5. CASE k = L + 1
      <4>1. ~(L + 1 \in 1 .. L)
        BY <3>3
      <4>2. Onward(up, n)' = Append(Onward(up, n), Head(chan[p][n]))
        BY <3>2, <3>5, <4>1
      <4>3. Append(Onward(up, n), Head(chan[p][n]))[k] = Head(chan[p][n])
        BY <3>3, <3>4, <3>5
      <4>4. Item(up, n, k)' = chan[p][n][1]
        BY <1>4, <3>1, <4>2, <4>3 DEF Item
      <4>5. 1 \in 1 .. Len(chan[p][n]) /\ 1 # 0 /\ 1 # -1
        BY <1>4
      <4>6. Item(up, p, 1) = chan[p][n][1] /\ Holds(up, p, 1)
        BY <1>2, <4>5 DEF Item, Holds
      <4> QED
        BY <2>2, <3>5, <4>4, <4>6
    <3>6. CASE k # L + 1
      <4> HIDE DEF L
      <4>1. /\ Len(Append(Onward(up, n), Head(chan[p][n]))) = L + 1
            /\ \A j \in 1 .. L : Append(Onward(up, n), Head(chan[p][n]))[j]
                                     = Onward(up, n)[j]
        BY <3>3, <3>4 DEF L
      <4>2. Len(Onward(up, n)) = L
        BY DEF L
      <4>3. k \in 1 .. L
        BY <3>2, <3>3, <3>6, <4>1, <4>2
      <4>4. Onward(up, n)'[k] = Onward(up, n)[k]
        BY <3>2, <4>1, <4>3
      <4>5. Holds(up, n, k) /\ Item(up, n, k)' = Item(up, n, k)
        BY <3>1, <3>2, <4>2, <4>3, <4>4 DEF Holds, Item
      <4> QED
        BY <2>2, <3>6, <4>5
    <3> QED
      BY <3>5, <3>6
  <2>3. CASE ~(k > 0 /\ m \in {n, p})
    <3>1. Holds(up, m, k) /\ Item(up, m, k)' = Item(up, m, k)
      BY <1>5, <2>3, StockKept
    <3>2. ~(m = n /\ k = L + 1)
      <4>1. CASE m = n
        <5>1. ~(k > 0)
          BY <2>3, <4>1
        <5>2. n = Sink \/ up[n] \in Node
          BY <3>1, <4>1 DEF Holds, Gone
        <5>3. L \in Nat
          BY <1>3, <5>2
        <5> QED
          BY <5>1, <5>3
      <4> QED
        BY <4>1
    <3> QED
      BY <2>3, <3>1, <3>2
  <2> QED
    BY <2>1, <2>2, <2>3
<1> DEFINE P == Stock(up)
           v == Goods(up)
           Q == Stock(up)' \ {z}
           w == Goods(up)'
<1>6. ASSUME NEW m \in Node, NEW k \in Int, <<m, k>> \in Q
      PROVE  /\ f[<<m, k>>] \in P
             /\ w[<<m, k>>] = v[f[<<m, k>>]]
             /\ \/ m = p /\ k > 0 /\ f[<<m, k>>] = <<p, k + 1>>
                \/ m = n /\ k = L + 1 /\ f[<<m, k>>] = <<p, 1>>
                \/ ~(m = p /\ k > 0) /\ f[<<m, k>>] = <<m, k>>
  <2> HIDE DEF L
  <2>1. Holds(up, m, k)' /\ <<m, k>> # z
    BY <1>6, PlaceFactsNext
  <2>2. f[<<m, k>>] = IF m = p /\ k > 0 THEN <<p, k + 1>>
                      ELSE IF m = n /\ k = L + 1 THEN <<p, 1>> ELSE <<m, k>>
    BY <1>6
  <2>3. w[<<m, k>>] = Item(up, m, k)'
    BY PlaceFactsNext
  <2> HIDE DEF f, P, v, Q, w
  <2>4. \A a \in Node, j \in Int :
            Holds(up, a, j) => <<a, j>> \in P /\ v[<<a, j>>] = Item(up, a, j)
    BY PlaceFacts DEF P, v
  <2>5. k + 1 \in Int /\ 1 \in Int
    OBVIOUS
  <2> QED
    BY <1>5, <2>1, <2>2, <2>3, <2>4, <2>5
<1>7. \A q \in Q : \E m \in Node, k \in Int : q = <<m, k>>
  BY DEF Stock, Place
<1>8. f = [q \in Q |-> f[q]]
  OBVIOUS
<1> HIDE DEF L, f, P, v, Q, w
<1>9. f \in [Q -> P] /\ \A q \in Q : w[q] = v[f[q]]
  BY <1>6, <1>7, <1>8
<1>10. ASSUME NEW q \in Q, NEW r \in Q, f[q] = f[r] PROVE q = r
  <2>1. PICK m \in Node, k \in Int : q = <<m, k>>
    BY <1>7
  <2>2. PICK a \in Node, j \in Int : r = <<a, j>>
    BY <1>7
  <2> QED
    BY <1>6, <1>10, <2>1, <2>2
<1>11. /\ Accounted(P, v, Items, faults) /\ f \in [Q -> P]
       /\ \A q, r \in Q : f[q] = f[r] => q = r
       /\ \A q \in Q : w[q] = v[f[q]] \/ v[f[q]] \notin Items
  BY <1>1, <1>9, <1>10 DEF P, v
<1>12. faults \in Nat
  BY <1>1
<1>13. Accounted(Q, w, Items, faults)
  BY <1>11, <1>12, Carried, Zenon
<1> QED
  BY <1>1, <1>13, CostsBy DEF Q, w

LEMMA CostsOnWriteSink ==
    ASSUME NEW up, SinkTree(up), DamageInv(up), NEW p \in Node, OnWriteSink(p)
    PROVE  Costs(up)'
<1>1. /\ LinksInv /\ InRange /\ chan \in [Node -> [Node -> Seq(Message)]]
      /\ chan[p][Sink] # << >> /\ ep[Sink][p] # "down"
      /\ printed' = Append(printed, Head(chan[p][Sink]))
      /\ chan' = [chan EXCEPT ![p][Sink] = Tail(@)]
      /\ UNCHANGED <<counter, pc, idx, messages, faults, ep,
                     default_connections, num_connections>>
  BY DEF DamageInv, RelayTypeInv, RelayTypeOK, LinksInv, OnWriteSink,
         sensorVars, meshVars, linkVars, tableVars
<1>2. Sink \in Node /\ Sink # p /\ up[p] = Sink
  BY <1>1, TreeFacts DEF InRange
<1>3. /\ chan'[p][Sink] = Tail(chan[p][Sink])
      /\ \A m, q \in Node : <<m, q>> # <<p, Sink>> => chan'[m][q] = chan[m][q]
  BY <1>1, <1>2
<1>4. Onward(up, Sink)' = Append(Onward(up, Sink), Head(chan[p][Sink]))
  BY <1>1 DEF Onward
<1>5. \A m \in Node : /\ MainKept(up, m, Nowhere)
                      /\ m # Sink /\ m # p => QueueKept(up, m)
  <2> TAKE m \in Node
  <2>1. MainKept(up, m, Nowhere)
    BY <1>1, SameLinks, MainSame
  <2> QED
    BY <1>3, <2>1 DEF QueueKept, Onward
<1>6. UNCHANGED counter /\ Nowhere = Nowhere /\ faults' \in {faults, faults + 1}
  BY <1>1
<1>7. /\ chan[p][Sink] # << >> /\ chan'[p][Sink] = Tail(chan[p][Sink])
      /\ Sink = Sink \/ up[Sink] \in Node =>
             \/ Onward(up, Sink)' = Onward(up, Sink)
             \/ Onward(up, Sink)' =
                    Append(Onward(up, Sink), Head(chan[p][Sink]))
  BY <1>1, <1>3, <1>4
<1> QED
  BY <1>2, <1>5, <1>6, <1>7, CostsHop

\* A relay hands a message from its queue to the next: toward the sink only if
\* it came from the other side.  What it overwrites is paid for.
LEMMA CostsOnWrite ==
    ASSUME NEW up, SinkTree(up), DamageInv(up), NEW n \in Node, NEW p \in Node,
           OnWrite(n, p)
    PROVE  Costs(up)'
<1> DEFINE msg == Head(chan[p][n])
<1>1. /\ LinksInv /\ InRange /\ chan \in [Node -> [Node -> Seq(Message)]]
      /\ messages \in [Node -> Message]
      /\ chan[p][n] # << >> /\ ep[n][p] # "down" /\ n # Sink
      /\ UNCHANGED <<counter, printed, pc, idx, ep, default_connections,
                     num_connections>>
  BY DEF DamageInv, RelayTypeInv, RelayTypeOK, LinksInv, OnWrite, tableVars,
         Source
<1>2. PICK z : /\ \/ z = Nowhere /\ faults' \in {faults, faults + 1}
                  \/ faults' = faults + 1
               /\ \A m \in Node : messages'[m] = messages[m] \/ z = <<m, 0>>
  <2>1. CASE UNCHANGED messages /\ faults' \in {faults, faults + 1}
    BY <2>1
  <2>2. ASSUME NEW m, messages' = [messages EXCEPT ![n] = m], Fault("preempt")
        PROVE  \A q \in Node : messages'[q] = messages[q] \/ <<n, 0>> = <<q, 0>>
    BY <1>1, <2>2
  <2>3. \/ UNCHANGED messages /\ faults' \in {faults, faults + 1}
        \/ /\ \E m : messages' = [messages EXCEPT ![n] = m]
           /\ Fault("preempt")
    BY DEF OnWrite, Fault, NoFault
  <2> QED
    BY <2>1, <2>2, <2>3 DEF Fault
<1>3. \A m \in Node : MainKept(up, m, z)
  BY <1>1, <1>2, SameLinks, MainSame
<1>4. n # p /\ p \in Neighbours[n] /\ (up[p] = n \/ up[n] = p)
      /\ ~(up[p] = n /\ up[n] = p)
  <2>1. p \in Neighbours[n]
    BY <1>1 DEF InRange
  <2> QED
    BY <2>1, TreeFacts
<1>5. msg \in Message
  BY <1>1, TailType
<1>6. /\ chan'[p][n] = Tail(chan[p][n])
      /\ \A q \in Node :
             \/ chan'[n][q] = chan[n][q]
             \/ /\ chan'[n][q] = Append(chan[n][q], msg)
                /\ \E i \in SendableTo(n, FirstSlot(n, p)) :
                       default_connections[n][i] = q
      /\ \A m, q \in Node : m # n /\ <<m, q>> # <<p, n>> =>
             chan'[m][q] = chan[m][q]
  <2>1. \/ chan' = [chan EXCEPT ![p][n] = Tail(@)]
        \/ \E lost : chan' = Relayed(n, p, msg, lost)
    BY DEF OnWrite
  <2> HIDE DEF msg
  <2>2. CASE chan' = [chan EXCEPT ![p][n] = Tail(@)]
    BY <1>1, <1>4, <2>2
  <2>3. ASSUME NEW lost, chan' = Relayed(n, p, msg, lost)
        PROVE  /\ chan'[p][n] = Tail(chan[p][n])
               /\ \A q \in Node :
                      \/ chan'[n][q] = chan[n][q]
                      \/ /\ chan'[n][q] = Append(chan[n][q], msg)
                         /\ \E i \in SendableTo(n, FirstSlot(n, p)) :
                                default_connections[n][i] = q
               /\ \A m, q \in Node : m # n /\ <<m, q>> # <<p, n>> =>
                      chan'[m][q] = chan[m][q]
    <3>1. chan \in [Node -> [Node -> Seq(Message)]] /\ chan[p][n] # << >>
          /\ n # p
      BY <1>1, <1>4
    <3> QED
      BY <1>5, <2>3, <3>1, RelayedEffect
  <2> QED
    BY <2>1, <2>2, <2>3
<1> HIDE DEF msg
<1>7. \A m \in Node : m # n /\ m # p => QueueKept(up, m)
  BY <1>1, <1>6 DEF QueueKept, Onward
<1>8. CASE up[p] = n
  <2>1. n = Sink \/ up[n] \in Node =>
            \/ Onward(up, n)' = Onward(up, n)
            \/ Onward(up, n)' = Append(Onward(up, n), Head(chan[p][n]))
    BY <1>1, <1>6 DEF Onward, msg
  <2>2. /\ n # p /\ chan[p][n] # << >> /\ chan'[p][n] = Tail(chan[p][n])
        /\ UNCHANGED counter
    BY <1>1, <1>4, <1>6
  <2>3. \A m \in Node : /\ MainKept(up, m, z)
                        /\ m # n /\ m # p => QueueKept(up, m)
    BY <1>3, <1>7
  <2> QED
    BY <1>2, <1>8, <2>1, <2>2, <2>3, CostsHop
<1>9. CASE up[n] = p
  <2>1. chan'[n][p] = chan[n][p]
    <3>1. LinksInv /\ \A i \in SendableTo(n, FirstSlot(n, p)) :
                          default_connections[n][i] # p
      BY <1>1, SlotSentTo
    <3> QED
      BY <1>6, <3>1
  <2>2. QueueKept(up, n)
    BY <1>1, <1>9, <2>1 DEF QueueKept, Onward
  <2>3. QueueKept(up, p)
    <3>1. up[p] # n
      BY <1>4, <1>9
    <3> QED
      BY <1>1, <1>4, <1>6, <3>1 DEF QueueKept, Onward
  <2>4. \A m \in Node : QueueKept(up, m) /\ MainKept(up, m, z)
    BY <1>3, <1>7, <2>2, <2>3
  <2> QED
    BY <1>1, <1>2, <2>4, CostsKept
<1> QED
  BY <1>4, <1>8, <1>9

\* A link that is lost gives its neighbours one thing more to pay for; one that
\* was gone has given it already.
LEMMA CostsLinkLost ==
    ASSUME NEW up, SinkTree(up), DamageInv(up), NEW n \in Node, NEW p \in Node,
           LinkLost(n, p)
    PROVE  Costs(up)'
<1>1. /\ LinksInv /\ InRange /\ TableInv /\ TableTypeOK /\ LinkClosed(n, p)
      /\ chan \in [Node -> [Node -> Seq(Message)]]
      /\ chan' = [chan EXCEPT ![p][n] = << >>]
      /\ UNCHANGED <<counter, printed, pc, idx, messages>>
      /\ ep[n][p] # "down"
      /\ \/ LinkGone(n, p) /\ faults' = faults
         \/ ~LinkGone(n, p) /\ faults' = faults + 1
  BY DEF DamageInv, RelayTypeInv, RelayTypeOK, LinksInv, SensorInv, TableInv,
         LinkLost, SensorDisconnected, LinkClosed, Close, NoFault, Fault
<1>2. n # p /\ (up[p] = n \/ up[n] = p) /\ ~(up[p] = n /\ up[n] = p)
  <2>1. p \in Neighbours[n]
    BY <1>1 DEF InRange
  <2> QED
    BY <2>1, TreeFacts
<1>3. /\ Slots(n, p)' = {} /\ Gone(n)' = Gone(n) \ {p}
      /\ p \in Gone(n) <=> LinkGone(n, p)
      /\ \A m, q \in Node : <<m, q>> # <<n, p>> => Slots(m, q)' = Slots(m, q)
      /\ \A m \in Node : m # n =>
             \/ Gone(m)' = Gone(m)
             \/ Gone(m)' = Gone(m) \cup {n} /\ m = p /\ ~LinkGone(n, p)
  BY <1>1, LinkClosedSlots, LinkClosedGone
<1>4. \A m \in Node : QueueKept(up, m)
  <2>1. \A m, q \in Node : chan'[m][q] = chan[m][q] \/ chan'[m][q] = << >>
    BY <1>1
  <2> QED
    BY <1>1, <2>1 DEF QueueKept, Onward
<1>5. ASSUME NEW m \in Node, NEW z, <<m, up[m]>> # <<n, p>>,
             m = p /\ ~LinkGone(n, p) => z = <<p, -1>>
      PROVE  MainKept(up, m, z)
  <2>1. up[m] \in Node => Slots(m, up[m])' = Slots(m, up[m])
    BY <1>3, <1>5
  <2>2. (up[m] \in Gone(m))' /\ z # <<m, -1>> => up[m] \in Gone(m)
    BY <1>3, <1>5
  <2> QED
    BY <1>1, <2>1, <2>2 DEF MainKept, Unsent, Ready, Own
<1>6. CASE up[n] # p
  <2> DEFINE z == IF LinkGone(n, p) THEN Nowhere ELSE <<p, -1>>
  <2>1. \A m \in Node : MainKept(up, m, z)
    BY <1>5, <1>6
  <2>2. \/ z = Nowhere /\ faults' \in {faults, faults + 1}
        \/ faults' = faults + 1
    BY <1>1
  <2> HIDE DEF z
  <2> QED
    BY <1>1, <1>4, <2>1, <2>2, CostsKept
<1>7. CASE up[n] = p /\ ~LinkGone(n, p)
  <2> DEFINE z == <<n, 0>>
  <2>1. MainKept(up, n, z)
    BY <1>3, <1>7 DEF MainKept
  <2>2. ASSUME NEW m \in Node, m # n PROVE MainKept(up, m, z)
    <3>1. up[m] \in Node => Slots(m, up[m])' = Slots(m, up[m])
      BY <1>3, <2>2
    <3>2. (up[m] \in Gone(m))' => up[m] \in Gone(m)
      BY <1>2, <1>3, <1>7, <2>2
    <3> QED
      BY <1>1, <3>1, <3>2 DEF MainKept, Unsent, Ready, Own
  <2>3. \A m \in Node : QueueKept(up, m) /\ MainKept(up, m, z)
    BY <1>4, <2>1, <2>2
  <2> HIDE DEF z
  <2> QED
    BY <1>1, <1>7, <2>3, CostsKept
<1>8. CASE up[n] = p /\ LinkGone(n, p)
  <2> DEFINE y == <<n, 0>>
             z == <<n, -1>>
  <2>1. z \in Stock(up) /\ Goods(up)[z] \notin Items
    <3>1. Holds(up, n, -1)
      BY <1>3, <1>8 DEF Holds
    <3>2. Item(up, n, -1) = Nothing
      BY DEF Item
    <3>3. Nothing \notin Items
      <4>1. Nothing.timestamp = 0 /\ \A c \in Node : ~(0 \in 1 .. counter[c])
        BY SMT DEF Nothing
      <4> QED
        BY <4>1 DEF Items, Taken
    <3> QED
      BY <3>1, <3>2, <3>3, PlaceFacts
  <2>2. ASSUME NEW m \in Node, NEW k \in Int, Holds(up, m, k)', <<m, k>> # y
        PROVE  /\ Holds(up, m, k) /\ <<m, k>> # z
               /\ Item(up, m, k)' = Item(up, m, k)
    <3>1. <<m, k>> # z
      <4> SUFFICES ASSUME m = n, k = -1 PROVE FALSE
        OBVIOUS
      <4>1. ~(-1 \in 1 .. Len(Onward(up, n)'))
        BY SMT
      <4>2. up[n] \in Gone(n)'
        BY <2>2, <4>1 DEF Holds
      <4> QED
        BY <1>3, <1>8, <4>2
    <3>2. MainKept(up, m, y)
      <4>1. CASE m = n
        BY <1>3, <1>8, <4>1 DEF MainKept
      <4>2. CASE m # n
        BY <1>5, <1>8, <4>2
      <4> QED
        BY <4>1, <4>2
    <3> QED
      BY <1>4, <2>2, <3>1, <3>2, StockKept
  <2>3. UNCHANGED <<counter, faults>>
    BY <1>1, <1>8
  <2> HIDE DEF y, z
  <2> QED
    BY <2>1, <2>2, <2>3, CostsRenamed
<1> QED
  BY <1>6, <1>7, <1>8

\* Steps of the links that leave the measurements alone.
LEMMA CostsQuietLinks ==
    ASSUME NEW up, SinkTree(up), DamageInv(up), UNCHANGED relayVars,
           UNCHANGED <<ep, default_connections, num_connections>>,
           faults' \in {faults, faults + 1}
    PROVE  Costs(up)'
<1>1. \A m \in Node : QueueKept(up, m) /\ MainKept(up, m, Nowhere)
  BY SameLinks, SameQueues, MainSame DEF relayVars
<1> QED
  BY <1>1, CostsKept DEF relayVars

\* A new link gets a slot that no loop of a main thread has passed.
LEMMA CostsLinkStep ==
    ASSUME NEW up, SinkTree(up), DamageInv(up), UNCHANGED relayVars,
           NEW n \in Node, NEW p \in Node, SensorLinkStep(n, p)
    PROVE  Costs(up)'
<1>1. /\ LinksInv /\ InRange /\ TableInv /\ TableTypeOK /\ TableMatchesLinks
      /\ UNCHANGED <<chan, printed, counter, pc, idx, messages>>
      /\ idx \in [Node -> 0 .. MAX_CONNECTIONS] /\ MainOK
  BY DEF DamageInv, RelayTypeInv, RelayTypeOK, LinksInv, SensorInv, TableInv,
         relayVars
<1>2. \A m \in Node : QueueKept(up, m)
  BY <1>1, SameQueues
<1>3. ASSUME NEW z, NEW m \in Node, Slots(m, up[m])' = Slots(m, up[m]),
             (up[m] \in Gone(m))' /\ z # <<m, -1>> => up[m] \in Gone(m)
      PROVE  MainKept(up, m, z)
  BY <1>1, <1>3 DEF MainKept, Unsent, Ready, Own
<1>4. CASE LinkUp(n, p)
  <2>1. UNCHANGED <<faults, default_connections, num_connections>>
        /\ \A m \in Node : Gone(m)' = Gone(m)
    BY <1>1, <1>4, LinkUpGone DEF LinkUp, Establish, tableVars
  <2>2. \A m \in Node : MainKept(up, m, Nowhere)
    BY <1>3, <2>1 DEF Slots
  <2> QED
    BY <1>1, <1>2, <2>1, <2>2, CostsKept
<1>5. ASSUME NEW m \in Node, NEW z, Connected(n, p),
             (up[m] \in Gone(m))' /\ z # <<m, -1>> => up[m] \in Gone(m)
      PROVE  MainKept(up, m, z)
  <2>1. /\ Slots(n, p)' = {num_connections[n]}
        /\ \A r, q \in Node : <<r, q>> # <<n, p>> => Slots(r, q)' = Slots(r, q)
    BY <1>1, <1>5, ConnectedSlots
  <2>2. CASE <<m, up[m]>> # <<n, p>>
    <3>1. up[m] \in Node => Slots(m, up[m])' = Slots(m, up[m])
      BY <2>1, <2>2
    <3> QED
      BY <1>1, <1>5, <3>1 DEF MainKept, Unsent, Ready, Own
  <2>3. CASE m = n /\ up[n] = p
    <3>1. Slots(n, p) = {}
      BY <1>1, <1>5 DEF Connected, TableMatchesLinks, Live
    <3>2. pc[n] = "write" => idx[n] # num_connections[n]
      BY <1>1 DEF MainOK, TableTypeOK
    <3>3. Ready(up, n) = Own(n) /\ Ready(up, n)' = Own(n)
      BY <1>1, <2>1, <2>3, <3>1, <3>2 DEF Ready, Own
    <3>4. Unsent(up, n)' => Unsent(up, n)
      BY <1>1, <2>3, <3>1 DEF Unsent
    <3> QED
      BY <1>5, <2>3, <3>3, <3>4 DEF MainKept
  <2> QED
    BY <2>2, <2>3
<1>6. ASSUME NEW m \in Node, NEW z, ConnectedOverrun(n, p),
             (up[m] \in Gone(m))' /\ z # <<m, -1>> => up[m] \in Gone(m)
      PROVE  MainKept(up, m, z)
  <2>1. Slots(m, up[m])' = Slots(m, up[m])
    BY <1>6 DEF ConnectedOverrun, Slots
  <2> QED
    BY <1>3, <1>6, <2>1
<1>7. CASE Connected(n, p) \/ ConnectedOverrun(n, p)
  <2>1. n # p /\ ~(up[n] = p /\ up[p] = n)
    <3>1. p \in Neighbours[n]
      BY <1>1, <1>7 DEF Connected, ConnectedOverrun, InRange
    <3> QED
      BY <3>1, TreeFacts
  <2>2. \/ faults' = faults /\ \A m \in Node : Gone(m)' = Gone(m)
        \/ /\ faults' = faults + 1
           /\ \A m \in Node : \/ Gone(m)' = Gone(m)
                              \/ m = n /\ Gone(m)' = Gone(m) \cup {p}
                              \/ m = p /\ Gone(m)' = Gone(m) \cup {n}
    BY <1>1, <1>7, ConnectedGone
  <2>3. PICK z : /\ \/ z = Nowhere /\ faults' \in {faults, faults + 1}
                    \/ faults' = faults + 1
                 /\ \A m \in Node :
                        (up[m] \in Gone(m))' /\ z # <<m, -1>> => up[m] \in Gone(m)
    <3>1. CASE faults' = faults /\ \A m \in Node : Gone(m)' = Gone(m)
      BY <3>1
    <3>2. CASE ~(faults' = faults /\ \A m \in Node : Gone(m)' = Gone(m))
      <4> DEFINE e == IF up[n] = p THEN <<n, -1>> ELSE <<p, -1>>
      <4>1. faults' = faults + 1
        BY <2>2, <3>2
      <4>2. ASSUME NEW m \in Node, (up[m] \in Gone(m))', e # <<m, -1>>
            PROVE  up[m] \in Gone(m)
        <5>1. ~(m = n /\ up[m] = p) /\ ~(m = p /\ up[m] = n)
          BY <2>1, <4>2
        <5> QED
          BY <2>2, <3>2, <4>2, <5>1
      <4> QED
        BY <4>1, <4>2
    <3> QED
      BY <3>1, <3>2
  <2>4. \A m \in Node : MainKept(up, m, z)
    BY <1>5, <1>6, <1>7, <2>3
  <2> QED
    BY <1>1, <1>2, <2>3, <2>4, CostsKept
<1>8. CASE \/ SensorDeviceFound(n, p)
           \/ DiscoverAttr(n, p)
           \/ DiscoverDone(n, p)
  <2>1. /\ UNCHANGED <<ep, default_connections, num_connections>>
        /\ faults' \in {faults, faults + 1}
    BY <1>8
    DEF SensorDeviceFound, DeviceFound, DiscoverAttr, DiscoverDone, Fault,
        NoFault, linkVars
  <2> QED
    BY <2>1, CostsQuietLinks
<1> QED
  BY <1>4, <1>7, <1>8 DEF SensorLinkStep, SensorConnected, SensorOverrun

LEMMA CostsInit ==
    ASSUME NEW up
    PROVE  SensorInit /\ RelayInit => DamageInv(up)
<1> SUFFICES ASSUME SensorInit, RelayInit PROVE DamageInv(up)
  OBVIOUS
<1>1. ASSUME NEW n \in Node, NEW k \in Int PROVE ~Holds(up, n, k)
  <2>1. up[n] \notin Gone(n)
    BY DEF SensorInit, TableInit, LinkInit, Gone
  <2>2. ~Unsent(up, n)
    BY DEF Unsent, RelayInit
  <2>3. n = Sink \/ up[n] \in Node => Onward(up, n) = << >>
    BY DEF Onward, RelayInit
  <2>4. ~(k \in 1 .. Len(<< >>))
    BY SMT
  <2> QED
    BY <2>1, <2>2, <2>3, <2>4 DEF Holds
<1>2. Stock(up) = {}
  BY <1>1 DEF Stock, Place
<1>3. IsFiniteSet({}) /\ Cardinality({}) = 0
  BY FS_EmptySet
<1>4. RelayTypeInv
  BY RelayTypeInit
<1>5. 0 <= faults
  BY <1>4, FaultCount DEF RelayTypeInv
<1>6. Costs(up)
  BY <1>2, <1>3, <1>5 DEF Costs, Accounted
<1> QED
  BY <1>4, <1>6 DEF DamageInv

LEMMA CostsStep ==
    ASSUME NEW up, SinkTree(up)
    PROVE  DamageInv(up) /\ [RelayNext]_vars => DamageInv(up)'
<1> SUFFICES ASSUME DamageInv(up), [RelayNext]_vars PROVE Costs(up)'
  BY RelayTypeStep DEF DamageInv
<1>1. ASSUME NEW n \in Node, MainStep(n) PROVE Costs(up)'
  <2>1. CASE SendWriteNull(n)
    BY <2>1, CostsQuietLinks DEF SendWriteNull, linkVars
  <2> QED
    BY <1>1, <2>1, CostsMeasure, CostsSendCheck, CostsSendWrite DEF MainStep
<1>2. CASE UNCHANGED vars
  BY <1>2, CostsQuietLinks
  DEF vars, sensorVars, meshVars, linkVars, tableVars
<1>3. CASE ButtonPressed /\ UNCHANGED relayVars
  BY <1>3, CostsQuietLinks DEF ButtonPressed, linkVars
<1>4. ASSUME NEW n \in Node, SensorNodeStep(n), UNCHANGED relayVars
      PROVE  Costs(up)'
  <2>1. /\ UNCHANGED <<ep, default_connections, num_connections>>
        /\ faults' \in {faults, faults + 1}
    BY <1>4
    DEF SensorNodeStep, SensorBtReady, SensorScanWork, ScanWorkHandler,
        ScanStarts, ScanRefused, SensorConnectFailed, ConnectFailed,
        CreateFails, Fault, NoFault, tableVars
  <2> QED
    BY <1>4, <2>1, CostsQuietLinks
<1> QED
  BY <1>1, <1>2, <1>3, <1>4, CostsOnWriteSink, CostsOnWrite, CostsLinkLost,
     CostsLinkStep DEF RelayNext

\* On a network without cycles, as the rows of the Renode scripts are, the sink
\* prints as many different measurements that boards have taken as it prints
\* lines, but for one line per failure.  A measurement is taken once, its loop
\* writes it toward the sink once, because a link is in one slot only and a new
\* link in a later one, and every relay passes it on once: it is printed
\* again, or comes out as another, only after a link was lost, a discovery
\* failed or a relay preempted the main thread that was about to write it.
THEOREM DamagePaidCorrect ==
    ASSUME NEW up, SinkTree(up)
    PROVE  RelaySpec => []DamagePaid
<1>1. SensorInit /\ RelayInit => DamageInv(up)
  BY CostsInit
<1>2. DamageInv(up) /\ [RelayNext]_vars => DamageInv(up)'
  BY CostsStep
<1>3. ASSUME DamageInv(up) PROVE DamagePaid
  <2>1. /\ Accounted(Stock(up), Goods(up), Items, faults) /\ faults \in Nat
        /\ printed \in Seq(Message)
    BY <1>3, FaultCount DEF DamageInv, Costs, RelayTypeInv, RelayTypeOK
  <2>2. ASSUME NEW k \in 1 .. Len(printed)
        PROVE  <<Sink, k>> \in Stock(up) /\ Goods(up)[<<Sink, k>>] = printed[k]
    <3>1. k \in Int /\ k # 0 /\ k # -1
      BY <2>1
    <3>2. Holds(up, Sink, k) /\ Item(up, Sink, k) = printed[k]
      BY <3>1 DEF Holds, Item, Onward
    <3> QED
      BY <3>1, <3>2, SinkAssumption, PlaceFacts
  <2>3. Len(printed) <= Cardinality(Among(printed, Items)) + faults
    <3> DEFINE P == Stock(up)
               v == Goods(up)
               T == Items
    <3>1. Accounted(P, v, T, faults) /\ faults \in Nat /\ printed \in Seq(Message)
      BY <2>1
    <3>2. Lies(printed, Sink, P, v)
      BY <2>2 DEF Lies
    <3> HIDE DEF P, v, T
    <3>3. Len(printed) <= Cardinality(Among(printed, T)) + faults
      BY <3>1, <3>2, Repeats, Zenon
    <3> QED
      BY <3>3 DEF T
  <2>4. Among(printed, Items) =
            {m \in {printed[k] : k \in 1 .. Len(printed)} : Taken(m)}
    <3>1. \A k \in 1 .. Len(printed) : printed[k] \in Message
      BY <2>1
    <3> QED
      BY <3>1 DEF Among, Items
  <2> QED
    BY <2>3, <2>4 DEF DamagePaid
<1> QED
  BY <1>1, <1>2, <1>3, PTL DEF RelaySpec
=============================================================================

---------------------------- MODULE SensorRelay ----------------------------
(***************************************************************************)
(* The measurements of Lab2/code/pt3_4 on their way to the sink.  Every    *)
(* SOURCE sends its own from its main thread, which callbacks interrupt,   *)
(* and relays those of others inside on_write; both fill in messages[i],   *)
(* the static copy for slot i.  The sink prints what it is sent.           *)
(***************************************************************************)
EXTENDS SensorMesh, Sequences

CONSTANTS
    NodeId,           \* [Node -> config->node_id]
    MaxMeasurements   \* bound: [Node -> how many measurements it takes]

\* The numbers of the SOURCEs are indices of last_timestamps (pt3.resc), which
\* is not empty (main.h).
ASSUME RelayAssumption ==
    /\ MAX_CONNECTIONS > 0
    /\ NodeId \in [Node -> Nat]
    /\ \A n \in Node : Source(n) => NodeId[n] \in Slot
    /\ \A n, p \in Node : NodeId[n] = NodeId[p] => n = p
    /\ MaxMeasurements \in [Node -> Nat]

Clock == UNION {0 .. MaxMeasurements[n] : n \in Node}

VARIABLES
    chan,             \* chan[n][p]: written by n, not yet handled by p
    counter,          \* measurement_counter, and the board's clock
    last_timestamps,  \* the static of redirect_message_SOURCE
    printed,          \* the measurements of others the sink has printed
    pc,               \* main thread of a SOURCE: where it is in the send loop
    idx,              \* its loop index i
    messages          \* what messages[idx] holds while it is being sent

relayVars == <<chan, counter, last_timestamps, printed, pc, idx, messages>>
vars == <<sensorVars, relayVars>>

\* Each board has a clock of its own; a measurement is stamped with it.
Message == [nodeID : Slot, timestamp : Clock]

RelayTypeOK ==
    /\ SensorTypeOK
    /\ chan \in [Node -> [Node -> Seq(Message)]]
    /\ counter \in [Node -> Clock]
    /\ last_timestamps \in [Node -> [Slot -> Clock]]
    /\ printed \in Seq(Message)
    /\ pc \in [Node -> {"sleep", "check", "write"}]
    /\ idx \in [Node -> 0 .. MAX_CONNECTIONS]
    /\ messages \in [Node -> Message]

RelayInit ==
    /\ chan = [n \in Node |-> [p \in Node |-> << >>]]
    /\ counter = [n \in Node |-> 0]
    /\ last_timestamps = [n \in Node |-> [i \in Slot |-> 0]]
    /\ printed = << >>
    /\ pc = [n \in Node |-> "sleep"]
    /\ idx = [n \in Node |-> 0]
    /\ messages = [n \in Node |-> [nodeID |-> 0, timestamp |-> 0]]

\* The message send_message_SOURCE builds.
OwnNext(n) ==   \* mutant: the counter moves on before the message is built
    [nodeID |-> NodeId[n], timestamp |-> counter[n] + 1]
OwnUnnumbered(n) ==   \* mutant: the message is sent without its node's number
    [nodeID |-> 0, timestamp |-> counter[n]]
Own(n) == [nodeID |-> NodeId[n], timestamp |-> counter[n]]

\* Slots that send_message_to_all does not skip.
Sendable(n, i) ==
    default_connections[n][i] # NoPeer /\ char_handles[n][i] /\ conn_ready[n][i]
SendableToAll(n, skip) ==   \* mutant: relays back to the sender
    {i \in Slot : i < num_connections[n] /\ Sendable(n, i)}
SendableTo(n, skip) ==
    {i \in Slot : i < num_connections[n] /\ i \notin skip /\ Sendable(n, i)}

AnyReady(n) == \E i \in Slot : i < num_connections[n] /\ conn_ready[n][i]
LoopDoneEarly(n) == idx[n] + 1 >= num_connections[n]   \* mutant
LoopDone(n) == idx[n] >= num_connections[n]

\* redirect_message_SOURCE: is a message from the connection in slot i newer.
Newer(n, i, msg) == msg.timestamp > last_timestamps[n][i]

\* The message reaches p when p's end of the link still exists.
Post(q, n, p, msg) == IF ep[p][n] = "down" THEN q ELSE Append(q, msg)
-----------------------------------------------------------------------------
\* A turn of role_SOURCE: take a measurement, and send it when a slot is ready.
Measure(n) ==
    /\ Source(n) /\ Runs(n)
    /\ pc[n] = "sleep" /\ counter[n] < MaxMeasurements[n]
    /\ counter' = [counter EXCEPT ![n] = @ + 1]
    /\ pc' = [pc EXCEPT ![n] = IF AnyReady(n) THEN "check" ELSE "sleep"]
    /\ UNCHANGED <<sensorVars, chan, last_timestamps, printed, idx, messages>>

\* One turn of the loop of send_message_to_all up to the write: leave the loop,
\* skip the slot, or copy the message to messages[i].
SendCheck(n) ==
    /\ pc[n] = "check" /\ Runs(n)
    /\ \/ /\ LoopDone(n)
          /\ pc' = [pc EXCEPT ![n] = "sleep"]
          /\ idx' = [idx EXCEPT ![n] = 0]
          /\ UNCHANGED messages
       \/ /\ ~LoopDone(n) /\ ~Sendable(n, idx[n])
          /\ idx' = [idx EXCEPT ![n] = @ + 1]
          /\ UNCHANGED <<pc, messages>>
       \/ /\ ~LoopDone(n) /\ Sendable(n, idx[n])
          /\ messages' = [messages EXCEPT ![n] = Own(n)]
          /\ pc' = [pc EXCEPT ![n] = "write"]
          /\ UNCHANGED idx
    /\ UNCHANGED <<sensorVars, chan, counter, last_timestamps, printed>>

\* bt_gatt_write_without_response(default_connections[i], ..., &messages[i]):
\* a refused write is reported and the loop goes on.
SendWrite(n) ==
    /\ pc[n] = "write" /\ Runs(n)
    /\ LET p == default_connections[n][idx[n]]
       IN /\ p # NoPeer
          /\ \/ Fault("write") /\ UNCHANGED chan
             \/ NoFault /\ chan' = [chan EXCEPT ![n][p] =
                                        Post(@, n, p, messages[n])]
    /\ pc' = [pc EXCEPT ![n] = "check"]
    /\ idx' = [idx EXCEPT ![n] = @ + 1]
    /\ UNCHANGED <<boot, advertising, scanning, initiating, ep, disc,
                   tableVars, conn_ready, counter, last_timestamps, printed,
                   messages>>

\* The same call when disconnected() has cleared the slot since the check.
SendWriteNull(n) ==
    /\ pc[n] = "write" /\ Runs(n)
    /\ default_connections[n][idx[n]] = NoPeer
    /\ halted' = [halted EXCEPT ![n] = "nullconn"]
    /\ UNCHANGED <<linkVars, scan_work, default_connections, num_connections,
                   char_handles, conn_ready, relayVars>>

\* The queues once n has relayed the first message p wrote to it.
Relayed(n, p, msg, lost) ==
    LET to == {default_connections[n][i] :
                   i \in SendableTo(n, FirstSlot(n, p)) \ lost}
    IN [chan EXCEPT ![p][n] = Tail(@),
                    ![n] = [q \in Node |->
                        IF q \in to THEN Post(chan[n][q], n, q, msg)
                                    ELSE chan[n][q]]]

\* What messages[i] of n may hold when a relay preempts the main thread that is
\* filling it in or about to write it: the relayed message, or its first
\* fields followed by those the main thread copies after the interruption.
Overwritten(n, msg) == {msg, [msg EXCEPT !.timestamp = Own(n).timestamp]}

\* on_write on the sink: print the measurement.
OnWriteSink(p) ==
    /\ chan[p][Sink] # << >> /\ Runs(Sink)
    /\ ep[Sink][p] \in {"up", "closing"}
    /\ printed' = Append(printed, Head(chan[p][Sink]))
    /\ chan' = [chan EXCEPT ![p][Sink] = Tail(@)]
    /\ UNCHANGED <<sensorVars, counter, last_timestamps, pc, idx, messages>>

\* on_write on a SOURCE: drop an old message, relay a newer one to every other
\* connection.  The timestamp is looked up under the slot the message came in
\* by and kept under the node it originates from.
OnWrite(n, p) ==
    /\ Source(n) /\ Runs(n)
    /\ chan[p][n] # << >> /\ ep[n][p] \in {"up", "closing"}
    /\ LET msg == Head(chan[p][n])
           out == SendableTo(n, FirstSlot(n, p))
           new == \E i \in FirstSlot(n, p) : Newer(n, i, msg)
       IN \/ /\ ~new /\ NoFault
             /\ chan' = [chan EXCEPT ![p][n] = Tail(@)]
             /\ UNCHANGED <<last_timestamps, messages>>
          \/ /\ new
             /\ last_timestamps' =
                    [last_timestamps EXCEPT ![n][msg.nodeID] = msg.timestamp]
             /\ IF pc[n] = "write" /\ idx[n] \in out
                THEN /\ Fault("preempt")
                     /\ chan' = Relayed(n, p, msg, {})
                     /\ \E m \in Overwritten(n, msg) :
                            messages' = [messages EXCEPT ![n] = m]
                ELSE /\ \/ NoFault /\ chan' = Relayed(n, p, msg, {})
                        \/ /\ Fault("write")
                           /\ \E i \in out : chan' = Relayed(n, p, msg, {i})
                     /\ UNCHANGED messages
    /\ UNCHANGED <<boot, advertising, scanning, initiating, ep, disc,
                   tableVars, conn_ready, counter, printed, pc, idx>>

\* A link closes at n's end: what p wrote and n has not handled is lost.
LinkLost(n, p) ==
    /\ SensorDisconnected(n, p)
    /\ chan' = [chan EXCEPT ![p][n] = << >>]
    /\ UNCHANGED <<counter, last_timestamps, printed, pc, idx, messages>>

MainStep(n) == Measure(n) \/ SendCheck(n) \/ SendWrite(n) \/ SendWriteNull(n)

RelayNext ==
    \/ \E n \in Node : MainStep(n)
    \/ \E p \in Node : OnWriteSink(p)
    \/ \E n, p \in Node : OnWrite(n, p)
    \/ \E n, p \in Node : LinkLost(n, p)
    \/ ButtonPressed /\ UNCHANGED relayVars
    \/ \E n \in Node : SensorNodeStep(n) /\ UNCHANGED relayVars
    \/ \E n, p \in Node : SensorLinkStep(n, p) /\ UNCHANGED relayVars

\* The main threads keep measuring and sending, and what is written to a board
\* reaches its on_write.
RelayFairness ==
    /\ \A n \in Node : /\ WF_vars(Measure(n)) /\ WF_vars(SendCheck(n))
                       /\ WF_vars(NoFault /\ SendWrite(n))
    /\ \A p \in Node : WF_vars(OnWriteSink(p))
    /\ \A n, p \in Node : WF_vars(NoFault /\ OnWrite(n, p))

RelaySpec == SensorInit /\ RelayInit /\ [][RelayNext]_vars /\ RelayFairness
-----------------------------------------------------------------------------
\* Nothing comes back: a SOURCE is never sent a measurement of its own.
NoEcho ==
    \A n, p \in Node : \A k \in 1 .. Len(chan[p][n]) :
        chan[p][n][k].nodeID # NodeId[n]

\* A measurement that its board has taken.
Taken(m) == \E n \in Node \ {Sink} : NodeId[n] = m.nodeID
                                     /\ m.timestamp \in 1 .. counter[n]

\* Every line the sink prints that repeats another one, or shows a measurement
\* no board took, was paid for by a failure, as when a relay preempts the main
\* thread between its copy to messages[i] and its write.
DamagePaid ==
    Len(printed)
        <= Cardinality({m \in {printed[k] : k \in 1 .. Len(printed)} : Taken(m)})
               + faults

\* Every pair of boards in range can send to each other.
Formed == \A n \in Node : \A p \in Neighbours[n] : Open(n, p)

\* Once the network is formed, each measurement of each SOURCE is printed by the
\* sink, unless something fails: with one SOURCE behind every relay, what
\* redirect_message_SOURCE remembers belongs to the board it asks about.
Arrives ==
    \A n \in Node \ {Sink} : \A t \in 1 .. MaxMeasurements[n] :
        (Formed /\ counter[n] = t - 1) ~>
            \/ \E k \in 1 .. Len(printed) :
                   printed[k] = [nodeID |-> NodeId[n], timestamp |-> t]
            \/ faults > 0

\* A claim the code does not keep.  redirect_message_SOURCE: "Check if a message
\* is new enough to be forwarded", so one that is newer than all that its
\* relay has had from the same board is not dropped.
FreshRelayed ==
    [][\A n, p \in Node :
           OnWrite(n, p) =>
               LET msg == Head(chan[p][n])
               IN msg.timestamp > last_timestamps[n][msg.nodeID]
                      => last_timestamps'[n][msg.nodeID] = msg.timestamp]_vars
=============================================================================

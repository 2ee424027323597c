---------------------------- MODULE ButtonFlood ----------------------------
(***************************************************************************)
(* The button events of Lab2/code/pt1_2 flooding over the links that       *)
(* ButtonMesh forms and loses.  The SOURCE sends from its main thread,     *)
(* which every callback may interrupt between any two steps of             *)
(* send_message_to_all; a TARGET handles and forwards a message inside one *)
(* callback.  Messages on one direction of a link arrive in order.         *)
(***************************************************************************)
EXTENDS ButtonMesh, Sequences

CONSTANTS
    MaxPresses,   \* bound: how many button events the SOURCE produces
    MaxTimestamp  \* the largest 32-bit timestamp

ASSUME PressAssumption ==
    /\ MaxPresses \in Nat /\ MaxTimestamp \in Nat
    /\ MaxPresses <= MaxTimestamp + 1

VARIABLES
    chan,           \* chan[n][p]: written by n, not yet handled by p
    lastTimestamp,  \* the static of redirect_message_TARGET
    led,            \* is the LED on
    timestamp,      \* the static of send_message_SOURCE: the next timestamp
    pc,             \* main thread of the SOURCE: where it is in the send loop
    idx,            \* its loop index i
    clobbered       \* write_params[idx].data was redirected by a callback

msgVars == <<chan, lastTimestamp, led, timestamp, pc, idx, clobbered>>
vars == <<meshVars, msgVars>>

Event == {"PRESSED", "RELEASED"}
Timestamp == 0 .. MaxTimestamp
Message == [timestamp : Timestamp, event : Event]

\* What a write may carry that reads a stack frame which is gone: any number
\* for a timestamp, and an event that need not be one.
Garbage == [timestamp : Timestamp, event : Event \cup {"malformed"}]

TypeOK ==
    /\ TableTypeOK
    /\ chan \in [Node -> [Node -> Seq(Garbage)]]
    /\ lastTimestamp \in [Node -> Timestamp]
    /\ led \in [Node -> BOOLEAN]
    /\ timestamp \in 0 .. MaxPresses
    /\ pc \in {"sleep", "check", "write"}
    /\ idx \in 0 .. MAX_CONNECTIONS
    /\ clobbered \in BOOLEAN

Init ==
    /\ TableInit
    /\ chan = [n \in Node |-> [p \in Node |-> << >>]]
    /\ lastTimestamp = [n \in Node |-> 0]
    /\ led = [n \in Node |-> FALSE]
    /\ timestamp = 0
    /\ pc = "sleep"
    /\ idx = 0
    /\ clobbered = FALSE

\* The event static of send_message_SOURCE starts PRESSED and alternates with
\* every message, so it is a function of the timestamp sent with it.
EventAt(t) == IF t % 2 = 0 THEN "PRESSED" ELSE "RELEASED"

\* The message send_message_SOURCE built last.
LatestLate ==   \* mutant: built after the statics have moved on
    [timestamp |-> timestamp, event |-> EventAt(timestamp)]
LatestToggled ==   \* mutant: built after the event was toggled
    [timestamp |-> timestamp - 1, event |-> EventAt(timestamp)]
Latest == [timestamp |-> timestamp - 1, event |-> EventAt(timestamp - 1)]

\* Slots that send_message_to_all does not skip.
Sendable(n, i) == default_connections[n][i] # NoPeer /\ char_handles[n][i]
SendableToAll(n, skip) ==   \* mutant: sends back to the sender
    {i \in Slot : i < num_connections[n] /\ Sendable(n, i)}
SendableTo(n, skip) ==
    {i \in Slot : i < num_connections[n] /\ i \notin skip /\ Sendable(n, i)}

\* The send loop of the SOURCE is through.
LoopDoneEarly == idx + 1 >= num_connections[Source]   \* mutant
LoopDone == idx >= num_connections[Source]

\* redirect_message_TARGET: is the message recent enough; is the LED on then.
Different(n, msg) == msg.timestamp # lastTimestamp[n]   \* mutant
Older(n, msg) == msg.timestamp < lastTimestamp[n]   \* mutant: compared backwards
Newer(n, msg) == msg.timestamp > lastTimestamp[n]
LightsStale(msg) == FALSE   \* mutant: currEvent is not assigned
Lights(msg) == msg.event = "PRESSED"

\* The message reaches p when p's end of the link still exists.
Post(q, n, p, msg) == IF ep[p][n] = "down" THEN q ELSE Append(q, msg)

-----------------------------------------------------------------------------
\* button_thread wakes up: send_message_SOURCE builds the next message, sets
\* the LED and enters send_message_to_all.
Press ==
    /\ pc = "sleep" /\ Runs(Source)
    /\ timestamp < MaxPresses
    /\ timestamp' = timestamp + 1
    /\ led' = [led EXCEPT ![Source] = EventAt(timestamp) = "PRESSED"]
    /\ pc' = "check" /\ idx' = 0
    /\ UNCHANGED <<meshVars, chan, lastTimestamp, clobbered>>

\* One turn of the loop up to bt_gatt_write: leave the loop, skip the slot, or
\* fill in write_params[i].
SendCheck ==
    /\ pc = "check" /\ Runs(Source)
    /\ \/ LoopDone /\ pc' = "sleep" /\ idx' = 0
       \/ /\ ~LoopDone /\ ~Sendable(Source, idx)
          /\ idx' = idx + 1
          /\ UNCHANGED pc
       \/ /\ ~LoopDone /\ Sendable(Source, idx)
          /\ pc' = "write"
          /\ UNCHANGED idx
    /\ UNCHANGED <<meshVars, chan, lastTimestamp, led, timestamp, clobbered>>

\* bt_gatt_write(default_connections[i], &write_params[i]): the connection is
\* read again; a refused write is reported and the loop goes on.
SendWrite ==
    /\ pc = "write" /\ Runs(Source)
    /\ LET p == default_connections[Source][idx]
       IN /\ p # NoPeer
          /\ \/ Fault("write") /\ UNCHANGED chan
             \/ /\ NoFault
                /\ \E m \in IF clobbered THEN Garbage ELSE {Latest} :
                       chan' = [chan EXCEPT ![Source][p] =
                                    Post(@, Source, p, m)]
    /\ pc' = "check" /\ idx' = idx + 1 /\ clobbered' = FALSE
    /\ UNCHANGED <<boot, advertising, scanning, initiating, ep, disc,
                   tableVars, lastTimestamp, led, timestamp>>

\* The same call when disconnected() has cleared the slot since the check.
SendWriteNull ==
    /\ pc = "write" /\ Runs(Source)
    /\ default_connections[Source][idx] = NoPeer
    /\ halted' = [halted EXCEPT ![Source] = "nullconn"]
    /\ UNCHANGED <<linkVars, scan_work, default_connections, num_connections,
                   char_handles, msgVars>>

\* The slots a callback forwards a message to, and what is left in the queues
\* once it has: the handled message is gone, the forwarded ones are added
\* (those of the slots in lost were refused by bt_gatt_write).
Forward(n, p, msg, lost) ==
    LET to == {default_connections[n][i] :
                   i \in SendableTo(n, FirstSlot(n, p)) \ lost}
    IN [chan EXCEPT ![p][n] = Tail(@),
                    ![n] = [q \in Node |->
                        IF q \in to THEN Post(chan[n][q], n, q, msg)
                                    ELSE chan[n][q]]]

\* on_write with redirect_message_TARGET, whatever the role of the board: an
\* old message is dropped, a newer one is shown and forwarded to every other
\* connection.  On the SOURCE it shares write_params with the main thread.
OnWrite(n, p) ==
    /\ chan[p][n] # << >> /\ Runs(n)
    /\ ep[n][p] \in {"up", "closing"}
    /\ LET msg == Head(chan[p][n])
           out == SendableTo(n, FirstSlot(n, p))
       IN \/ /\ ~Newer(n, msg)
             /\ chan' = [chan EXCEPT ![p][n] = Tail(@)]
             /\ NoFault
             /\ UNCHANGED <<lastTimestamp, led, clobbered>>
          \/ /\ Newer(n, msg)
             /\ lastTimestamp' = [lastTimestamp EXCEPT ![n] = msg.timestamp]
             /\ \/ /\ msg.event \in Event
                   /\ led' = [led EXCEPT ![n] = Lights(msg)]
                   /\ \/ NoFault /\ chan' = Forward(n, p, msg, {})
                      \/ /\ Fault("write")
                         /\ \E i \in out : chan' = Forward(n, p, msg, {i})
                   /\ clobbered' = (clobbered \/
                          (n = Source /\ pc = "write" /\ idx \in out))
                \/ /\ msg.event \notin Event
                   /\ chan' = [chan EXCEPT ![p][n] = Tail(@)]
                   /\ NoFault
                   /\ UNCHANGED <<led, clobbered>>
    /\ UNCHANGED <<boot, advertising, scanning, initiating, ep, disc,
                   tableVars, timestamp, pc, idx>>

\* A link closes at n's end: what p wrote and n has not handled is lost.
LinkLost(n, p) ==
    /\ Disconnected(n, p)
    /\ chan' = [chan EXCEPT ![p][n] = << >>]
    /\ UNCHANGED <<lastTimestamp, led, timestamp, pc, idx, clobbered>>

Next ==
    \/ Press
    \/ SendCheck
    \/ SendWrite
    \/ SendWriteNull
    \/ \E n, p \in Node : OnWrite(n, p)
    \/ \E n, p \in Node : LinkLost(n, p)
    \/ \E n \in Node : NodeStep(n) /\ UNCHANGED msgVars
    \/ \E n, p \in Node : LinkStep(n, p) /\ UNCHANGED msgVars

\* The button keeps being pressed, the main thread keeps running, and what is
\* written to a board reaches its on_write.
Fairness ==
    /\ WF_vars(Press) /\ WF_vars(SendCheck) /\ WF_vars(NoFault /\ SendWrite)
    /\ \A n, p \in Node : WF_vars(NoFault /\ OnWrite(n, p))

Spec == Init /\ [][Next]_vars
FairSpec == Spec /\ Fairness
-----------------------------------------------------------------------------
Targets == Node \ {Source}

\* The newest event board n has accepted: the SOURCE its last one, a TARGET the
\* one with lastTimestamp (-1 before any).  redirect_message_TARGET keeps the
\* timestamp of a message before it looks at the event: where messages may be
\* wrong, having accepted one is not yet showing it.
Accepted(n) ==
    IF n = Source THEN timestamp - 1
    ELSE IF lastTimestamp[n] = 0 THEN -1 ELSE lastTimestamp[n]

\* Every message in flight is one the SOURCE produced, with its own event: no
\* board can be made to show something that did not happen.
Genuine ==
    \A n, p \in Node : \A k \in 1 .. Len(chan[n][p]) :
        LET m == chan[n][p][k]
        IN m.timestamp < timestamp /\ m.event = EventAt(m.timestamp)

\* On a network without cycles a board is sent nothing it shows already, in
\* order, and the SOURCE is sent nothing at all.  Only the SOURCE may repeat a
\* message, to a board that left and joined again while the send loop ran.
NoDuplicateTraffic ==
    \A n, p \in Node : \A k \in 1 .. Len(chan[p][n]) :
        /\ \/ chan[p][n][k].timestamp > Accepted(n)
           \/ p = Source /\ chan[p][n][k].timestamp = Accepted(n)
        /\ \A j \in 1 .. k - 1 :
               chan[p][n][j].timestamp < chan[p][n][k].timestamp

\* on_write finds the slot of the sender: a message is only ever on its way to
\* a board that has the link in its table, though the two learn of the link at
\* different times, and links come and go while the main thread is between its
\* check and its write, for which it reads the slot again.  With the slot
\* unknown (-1) the message would be sent back.
SenderKnown ==
    \A n, p \in Node : chan[n][p] # << >> => Slots(p, n) # {} \/ ~Runs(p)

\* On any network, rings included, a TARGET writes an event to a neighbour at
\* most once, and in the order of the events: what it has on its way on a link
\* rises up to the last event it accepted, though it takes its messages from
\* several neighbours, and though they may be old or wrong.
ForwardsOnce ==
    \A n \in Targets, p \in Node : \A k \in 1 .. Len(chan[n][p]) :
        /\ chan[n][p][k].timestamp <= lastTimestamp[n]
        /\ \A j \in 1 .. k - 1 :
               chan[n][p][j].timestamp < chan[n][p][k].timestamp

\* The network implements LatestEvent: whatever is lost and however the links
\* come and go, a board's LED shows a published event and moves only forward.
LE == INSTANCE LatestEvent WITH
          published <- timestamp, shown <- [n \in Node |-> Accepted(n)], lit <- led
ShowsLatestEvents == LE!LatestSpec

\* Every pair of boards in range can write to each other.
Formed == \A n \in Node : \A p \in Neighbours[n] : Writable(n, p)

\* The LED of t shows event k or a later one that the SOURCE has produced.
Shows(t, k) ==
    /\ lastTimestamp[t] \in k .. timestamp - 1
    /\ led[t] = (EventAt(lastTimestamp[t]) = "PRESSED")

\* As long as no callback redirects a write that the main thread of the SOURCE
\* has prepared: once the network is formed every board comes to show the next
\* event of the SOURCE, or a newer one, for good, in a ring too, where old copies
\* of an event arrive after new ones.  (A redirected write may carry a timestamp
\* above those of all events, after which a board accepts none; and the event
\* with timestamp 0 is not covered: only timestamps above 0 are accepted.)
Converges ==
    [](~clobbered) =>
        \A t \in Targets, k \in 1 .. MaxPresses - 1 :
            (Formed /\ timestamp = k) ~> []Shows(t, k)

\* No broadcast storm, not even when the boards form a ring: the traffic dies
\* down once the button rests.
FloodEnds ==
    <>[](pc = "sleep" /\ \A n, p \in Node : chan[n][p] = << >>)

=============================================================================

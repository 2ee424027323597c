------------------------------ MODULE CoapPair ------------------------------
(***************************************************************************)
(* The CoAP client and server of Lab 3 and the datagrams between them.     *)
(* The client asks for the sensor and sets the actuator in turns, forever: *)
(* it waits two seconds for an answer, prints the first datagram that its  *)
(* socket holds, whichever request that answers, and never repeats a       *)
(* request.  The boards are one hop apart: datagrams and the answers to    *)
(* them may be lost or late, and do not overtake each other.               *)
(***************************************************************************)
EXTENDS Integers, Sequences

CONSTANTS
    Ids,        \* how many message ids there are (2^16 in the code)
    Ticks,      \* how many values of the tick are told apart
    NoAnswer,   \* nothing has been received for the last request
    Faults,     \* the kinds of failure that may happen: "loss", "late"
    MaxFaults   \* bound: how many failures happen in one behaviour

\* Ids come round again later than the answers that are awaited.
ASSUME CoapAssumption ==
    /\ Ids \in Nat /\ Ticks \in Nat /\ MaxFaults \in Nat
    /\ Ids > MaxFaults + 2 /\ Ticks > MaxFaults + 2

VARIABLES
    pc,              \* client: the request it sends next or waits for
    msg_id,          \* client: the id of its next request
    toggle,          \* client: is the next action "on"
    shown,           \* client: what it printed for its last request
    tick,            \* server: the static of update_sensors
    actuator_state,  \* server
    toServer,        \* requests sent and not yet received
    toClient,        \* answers sent and not yet received
    faults,          \* failures that have happened so far
    late             \* how many of them were answers that came too late

clientVars == <<pc, msg_id, toggle, shown>>
serverVars == <<tick, actuator_state>>
vars == <<clientVars, serverVars, toServer, toClient, faults, late>>

Request == [id : 0 .. Ids - 1, cmd : {"sensor", "on", "off"}]
Answer == [id : 0 .. Ids - 1, reading : 0 .. Ticks - 1]
            \cup [id : 0 .. Ids - 1, state : {0, 1}]

CoapTypeOK ==
    /\ pc \in {"get", "get_sent", "post", "post_sent"}
    /\ msg_id \in 0 .. Ids - 1
    /\ toggle \in BOOLEAN
    /\ shown \in Answer \cup {NoAnswer}
    /\ tick \in 0 .. Ticks - 1
    /\ actuator_state \in {0, 1}
    /\ toServer \in Seq(Request)
    /\ toClient \in Seq(Answer)
    /\ faults \in 0 .. MaxFaults
    /\ late \in 0 .. faults

CoapInit ==
    /\ pc = "get"
    /\ msg_id = 1
    /\ toggle = FALSE
    /\ shown = NoAnswer
    /\ tick = 0
    /\ actuator_state = 0
    /\ toServer = << >>
    /\ toClient = << >>
    /\ faults = 0
    /\ late = 0

NoFault == UNCHANGED faults
Fault(kind) ==
    kind \in Faults /\ faults < MaxFaults /\ faults' = faults + 1

SuccWide(x, n) == x + 1   \* mutant: a counter that does not wrap
\* The successor of x among n numbers that come round again.
Succ(x, n) == IF x + 1 >= n THEN 0 ELSE x + 1
\* How far x is behind y among them.
Behind(x, y, n) == IF x <= y THEN y - x ELSE y - x + n

\* zsock_sendto: datagram d, sent on q, arrives in the end or is lost.
Transmit(q, qNext, d) ==
    \/ NoFault /\ qNext = Append(q, d)
    \/ Fault("loss") /\ qNext = q
-----------------------------------------------------------------------------
\* send_get_sensor
SendGet ==
    /\ pc = "get"
    /\ Transmit(toServer, toServer', [id |-> msg_id, cmd |-> "sensor"])
    /\ msg_id' = Succ(msg_id, Ids)
    /\ pc' = "get_sent"
    /\ shown' = NoAnswer
    /\ UNCHANGED <<toggle, serverVars, toClient, late>>

\* What the next POST asks for, and the toggle once it has been dealt with.
Cmd(t) == IF t THEN "on" ELSE "off"
ToggleOnce(t) == TRUE   \* mutant
Toggled(t) == ~t

\* send_post_action
SendPost ==
    /\ pc = "post"
    /\ Transmit(toServer, toServer', [id |-> msg_id, cmd |-> Cmd(toggle)])
    /\ msg_id' = Succ(msg_id, Ids)
    /\ pc' = "post_sent"
    /\ shown' = NoAnswer
    /\ UNCHANGED <<toggle, serverVars, toClient, late>>

\* The client goes on to its next request; it toggles after every POST.
GoOn ==
    /\ pc' = IF pc = "get_sent" THEN "post" ELSE "get"
    /\ toggle' = IF pc = "post_sent" THEN Toggled(toggle) ELSE toggle
    /\ UNCHANGED <<msg_id, serverVars, toServer>>

\* receive_response: print the first answer that is there.
ReceiveResponse ==
    /\ pc \in {"get_sent", "post_sent"}
    /\ toClient # << >>
    /\ shown' = Head(toClient)
    /\ toClient' = Tail(toClient)
    /\ GoOn
    /\ NoFault /\ UNCHANGED late

\* receive_response after two seconds without an answer: there is none to come,
\* or it is late.
Timeout ==
    /\ pc \in {"get_sent", "post_sent"}
    /\ IF toServer = << >> /\ toClient = << >>
       THEN NoFault /\ UNCHANGED late
       ELSE Fault("late") /\ late' = late + 1
    /\ shown' = NoAnswer
    /\ GoOn
    /\ UNCHANGED toClient

\* Server: the answer to GET /sensor; its reading is taken after the update.
ReadingBefore(t) == t   \* mutant: the reading is taken first
Reading(t) == Succ(t, Ticks)

\* Server: the state after an action, by the first letters of its text.
AfterPrefix(cmd) == 1   \* mutant: strncmp(cmd, "on", 1)
After(cmd) == IF cmd = "on" THEN 1 ELSE 0

\* An answer has the id of its request.
OwnId(req) == tick   \* mutant: the server counts by itself
AnswerId(req) == req.id

HandleGetSensor ==
    /\ toServer # << >> /\ Head(toServer).cmd = "sensor"
    /\ tick' = Succ(tick, Ticks)
    /\ Transmit(toClient, toClient',
                [id |-> AnswerId(Head(toServer)), reading |-> Reading(tick)])
    /\ toServer' = Tail(toServer)
    /\ UNCHANGED <<clientVars, actuator_state, late>>

HandleAction ==
    /\ toServer # << >> /\ Head(toServer).cmd \in {"on", "off"}
    /\ LET state == After(Head(toServer).cmd)
       IN /\ actuator_state' = state
          /\ Transmit(toClient, toClient',
                      [id |-> AnswerId(Head(toServer)), state |-> state])
    /\ toServer' = Tail(toServer)
    /\ UNCHANGED <<clientVars, tick, late>>

Client == SendGet \/ SendPost \/ ReceiveResponse \/ Timeout
Server == HandleGetSensor \/ HandleAction
CoapNext == Client \/ Server

\* Both loops go on; nothing has to be lost or late.
CoapSpec ==
    /\ CoapInit /\ [][CoapNext]_vars
    /\ WF_vars(NoFault /\ Client) /\ WF_vars(NoFault /\ Server)
-----------------------------------------------------------------------------
\* Has the client just finished waiting for an answer, and got one.
Idle == pc \in {"get", "post"} /\ shown # NoAnswer

\* How many requests have been sent since the one with this id, when the next
\* one gets the id m.
AgeOf(id, m) == Behind(id, IF m = 0 THEN Ids - 1 ELSE m - 1, Ids)
Age(datagram) == AgeOf(datagram.id, msg_id)

\* receive_response does not look at the id or the token of what it prints.
\* Still the client never falls further behind than it has run out of patience:
\* what it prints answers a request that is at most as many requests old as
\* answers have been late, however many were lost.
AnswerAge == Idle => Age(shown) <= late

\* The same for what the readings are worth: since the one that is printed the
\* server has taken at most as many new ones as answers have been late.
ReadingAge ==
    (Idle /\ "reading" \in DOMAIN shown)
        => Behind(shown.reading, tick, Ticks) <= late

\* A POST that was answered in time is in force when the client prints the
\* answer, whatever was late or lost before (the toggle has moved on by then).
AnsweredIsInForce ==
    (Idle /\ pc = "get" /\ Age(shown) = 0)
        => /\ shown.state = actuator_state
           /\ actuator_state = 1 <=> ~toggle

\* Whatever failed, the client goes on and the actuator goes on to follow it:
\* it is switched on, and off, again and again.
KeepsSwitching == []<>(actuator_state = 1) /\ []<>(actuator_state = 0)
=============================================================================

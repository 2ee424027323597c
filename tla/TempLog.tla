------------------------------ MODULE TempLog ------------------------------
(***************************************************************************)
(* Lab 1 parts 2 and 3 together: the central and its peripherals print     *)
(* what they read and send, and the script pairs the lines.  The boards    *)
(* are started together, so the time on a line is the place of its event   *)
(* among those of both boards.                                             *)
(***************************************************************************)
EXTENDS TempCentral, PortScanner

CONSTANTS
    MaxSent,   \* bound: temperatures a peripheral produces
    MaxRecv    \* bound: RECV lines the script collects before its time is up

ASSUME LogAssumption == MaxSent \in Nat /\ MaxRecv \in Nat

VARIABLES
    sent_packets,   \* the SEND lines, with the peripheral they are of
    recv_packets,   \* the RECV lines, with the id of what was really read
    given_up        \* the discovery on the present link has failed

logVars == <<sent_packets, recv_packets>>
vars == <<tempVars, logVars, given_up>>

Time == Nat
TypeOK ==
    /\ TempTypeOK
    /\ sent_packets \in Seq([id : Nat, t : Time, temp : Temps])
    /\ recv_packets \in Seq([of : Nat, t : Time, temp : Temps \cup {Initial}])
    /\ given_up \in BOOLEAN

Init ==
    /\ TempInit
    /\ sent_packets = << >> /\ recv_packets = << >>
    /\ given_up = FALSE

Now == Len(sent_packets) + Len(recv_packets) + 1

\* The peripheral prints SEND after it has updated the temperature.
Send(p, temp) ==
    /\ boot[p] # "off" /\ current[p].id < MaxSent
    /\ Update(p, temp)
    /\ sent_packets' = Append(sent_packets,
                              [id |-> current'[p].id, t |-> Now, temp |-> temp])
    /\ UNCHANGED <<recv_packets, given_up>>

\* The central prints RECV, for as long as the script listens.
Recv ==
    /\ ReadTemperature
    /\ recv_packets' =
           IF Len(recv_packets) < MaxRecv
           THEN Append(recv_packets, [of |-> Head(reads).id, t |-> Now,
                                      temp |-> Head(reads).temp])
           ELSE recv_packets
    /\ UNCHANGED <<sent_packets, given_up>>

Next ==
    \/ \E p \in Peripheral, temp \in Temps : Send(p, temp)
    \/ Recv
    \/ /\ TempQuiet /\ UNCHANGED logVars
       /\ given_up' = (given_up /\ default_conn' # NoPeer)
    \/ /\ \E p \in Peripheral : DiscoverFailed(p)
       /\ given_up' = TRUE /\ UNCHANGED logVars

\* Callbacks, timers and answers that are due come; nothing has to fail.
Due(A) == /\ NoFault /\ A /\ UNCHANGED logVars
          /\ given_up' = (given_up /\ default_conn' # NoPeer)
Fairness ==
    /\ WF_vars(Due(CentralReady)) /\ WF_vars(Due(ConnectFailed))
    /\ WF_vars(Due(ReadDue)) /\ WF_vars(Due(PerformRead))
    /\ WF_vars(Recv)
    /\ \A p \in Peripheral :
          /\ WF_vars(Due(PeripheralReady(p))) /\ WF_vars(Due(DeviceFound(p)))
          /\ WF_vars(Due(LinkUp(p))) /\ WF_vars(Due(Connected(p)))
          /\ WF_vars(Due(PeripheralLinked(p)))
          /\ WF_vars(Due(PeripheralUnlinked(p)))
          /\ WF_vars(Due(Discovered(p))) /\ WF_vars(Due(Disconnected(p)))
          /\ WF_vars(Due(Answer(p)))

Spec == Init /\ [][Next]_vars /\ Fairness
-----------------------------------------------------------------------------
\* The SEND lines whose temperature the central really read and printed.
Delivered ==
    {i \in DOMAIN sent_packets :
        \E k \in DOMAIN recv_packets : recv_packets[k].of = sent_packets[i].id}

\* The script never reports a temperature as lost that was read, however reads
\* and updates interleave, although RECV lines carry no id and one temperature
\* may be read twice or be sent twice; and when no two temperatures are equal
\* the lines it pairs are exactly those that belong together.
LossIsReal ==
    /\ Lost(sent_packets, recv_packets)
           <= Len(sent_packets) - Cardinality(Delivered)
    /\ (\A i, j \in DOMAIN sent_packets :
            sent_packets[i].temp = sent_packets[j].temp => i = j)
           => Matched(sent_packets, recv_packets) = Delivered

\* The discovery failed and no read is scheduled: nothing starts either again.
Undiscovered == given_up /\ read_work = "idle"

\* Readings go on for ever, through links that are lost, connections and
\* discoveries that do not start and reads that the stack does not take; what
\* ends them is a refused scan or a discovery that fails half way.
ReadingsGoOn ==
    \/ []<><<Recv>>_vars
    \/ <>[](Deaf \/ Undiscovered \/ boot[Central] = "failed"
                \/ \A p \in Peripheral : ~advertising[p])
=============================================================================

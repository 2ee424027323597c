--------------------------- MODULE CoapPair_proof ---------------------------
(***************************************************************************)
(* What CoapPair guarantees for any numbers of ids and ticks and any       *)
(* number of lost or late datagrams.                                       *)
(***************************************************************************)
EXTENDS CoapPair, TLAPS

-----------------------------------------------------------------------------
(* Numbers that come round again, and queues of datagrams. *)

LEMMA SuccType ==
    ASSUME NEW n \in Nat, n > 0, NEW x \in 0 .. n - 1
    PROVE  Succ(x, n) \in 0 .. n - 1
  BY SMT DEF Succ

LEMMA TickType ==
    ASSUME CoapTypeOK PROVE Succ(tick, Ticks) \in 0 .. Ticks - 1
<1>1. Ticks \in Nat /\ Ticks > 0 /\ tick \in 0 .. Ticks - 1
  BY CoapAssumption, SMT DEF CoapTypeOK
<1> QED
  BY <1>1, SuccType

\* The next request makes every earlier one older by one.
LEMMA AgeGrows ==
    ASSUME NEW id \in 0 .. Ids - 1, NEW m \in 0 .. Ids - 1,
           AgeOf(id, m) < Ids - 1
    PROVE  AgeOf(id, Succ(m, Ids)) = AgeOf(id, m) + 1
  BY CoapAssumption, SMT DEF AgeOf, Behind, Succ

LEMMA AgeNew ==
    ASSUME NEW m \in 0 .. Ids - 1
    PROVE  AgeOf(m, Succ(m, Ids)) = 0
  BY CoapAssumption, SMT DEF AgeOf, Behind, Succ

LEMMA AgeNat ==
    ASSUME NEW id \in 0 .. Ids - 1, NEW m \in 0 .. Ids - 1
    PROVE  AgeOf(id, m) \in 0 .. Ids - 1
  BY CoapAssumption, SMT DEF AgeOf, Behind

LEMMA TailType ==
    ASSUME NEW S, NEW q \in Seq(S), q # << >>
    PROVE  /\ Head(q) \in S /\ Tail(q) \in Seq(S)
           /\ Head(q) = q[1] /\ 1 \in 1 .. Len(q)
           /\ Len(Tail(q)) = Len(q) - 1
           /\ \A k \in 1 .. Len(Tail(q)) :
                  Tail(q)[k] = q[k + 1] /\ k + 1 \in 1 .. Len(q)
  BY SMT

\* A queue with d at its end, or without it.
LEMMA SentType ==
    ASSUME NEW S, NEW q \in Seq(S), NEW d \in S,
           NEW r, r = q \/ r = Append(q, d)
    PROVE  /\ r \in Seq(S)
           /\ \A k \in 1 .. Len(r) :
                  \/ k \in 1 .. Len(q) /\ r[k] = q[k]
                  \/ k = Len(q) + 1 /\ r[k] = d
<1>1. /\ q \in Seq(S) /\ Append(q, d) \in Seq(S)
      /\ Len(q) \in Nat /\ Len(Append(q, d)) = Len(q) + 1
      /\ \A k \in 1 .. Len(q) : Append(q, d)[k] = q[k]
      /\ Append(q, d)[Len(q) + 1] = d
  BY SMT
<1>2. CASE r = q
  BY <1>1, <1>2, SMT
<1>3. CASE r = Append(q, d)
  <2> SUFFICES ASSUME NEW k \in 1 .. Len(r)
               PROVE  \/ k \in 1 .. Len(q) /\ r[k] = q[k]
                      \/ k = Len(q) + 1 /\ r[k] = d
    BY <1>1, <1>3
  <2>1. k \in 1 .. Len(q) \/ k = Len(q) + 1
    BY <1>1, <1>3, SMT
  <2> QED
    BY <1>1, <1>3, <2>1
<1> QED
  BY <1>2, <1>3

\* The budget of failures is not exceeded.
LEMMA FaultType ==
    ASSUME CoapTypeOK, NEW kind, Fault(kind) \/ NoFault
    PROVE  faults' \in 0 .. MaxFaults /\ late \in 0 .. faults'
  BY CoapAssumption, SMT DEF CoapTypeOK, Fault, NoFault

-----------------------------------------------------------------------------
(* Type correctness. *)

LEMMA AnswerRecord ==
    ASSUME NEW id \in 0 .. Ids - 1
    PROVE  /\ \A cmd \in {"sensor", "on", "off"} :
                  [id |-> id, cmd |-> cmd] \in Request
           /\ \A v \in 0 .. Ticks - 1 : [id |-> id, reading |-> v] \in Answer
           /\ \A v \in {0, 1} : [id |-> id, state |-> v] \in Answer
  BY DEF Request, Answer

LEMMA SendType ==
    ASSUME CoapTypeOK, SendGet \/ SendPost
    PROVE  CoapTypeOK'
<1>1. msg_id' \in 0 .. Ids - 1
  BY SuccType, CoapAssumption DEF CoapTypeOK, SendGet, SendPost
<1>2. PICK cmd \in {"sensor", "on", "off"} :
          /\ toServer' = toServer
                \/ toServer' = Append(toServer, [id |-> msg_id, cmd |-> cmd])
          /\ Fault("loss") \/ NoFault
  BY DEF SendGet, SendPost, Cmd, Transmit
<1>3. toServer \in Seq(Request) /\ [id |-> msg_id, cmd |-> cmd] \in Request
  BY AnswerRecord DEF CoapTypeOK
<1>4. toServer' \in Seq(Request)
  BY <1>2, <1>3, SentType
<1>5. faults' \in 0 .. MaxFaults /\ late' \in 0 .. faults'
  BY <1>2, FaultType DEF SendGet, SendPost
<1> QED
  BY <1>1, <1>4, <1>5 DEF CoapTypeOK, SendGet, SendPost, serverVars

LEMMA WaitType ==
    ASSUME CoapTypeOK, ReceiveResponse \/ Timeout
    PROVE  CoapTypeOK'
<1>1. /\ GoOn /\ pc \in {"get_sent", "post_sent"}
      /\ faults' \in 0 .. MaxFaults /\ late' \in 0 .. faults'
  BY CoapAssumption, SMT
  DEF CoapTypeOK, ReceiveResponse, Timeout, GoOn, NoFault, Fault
<1>2. toClient' \in Seq(Answer) /\ shown' \in Answer \cup {NoAnswer}
  <2>1. toClient \in Seq(Answer) /\ shown \in Answer \cup {NoAnswer}
    BY DEF CoapTypeOK
  <2>2. CASE toClient # << >>
    <3>1. Head(toClient) \in Answer /\ Tail(toClient) \in Seq(Answer)
      BY <2>1, <2>2, TailType
    <3> QED
      BY <2>1, <3>1 DEF ReceiveResponse, Timeout
  <2> QED
    BY <2>1, <2>2 DEF ReceiveResponse, Timeout
<1>3. pc' \in {"get", "post"} /\ toggle' \in BOOLEAN
  BY <1>1 DEF CoapTypeOK, GoOn, Toggled
<1> QED
  BY <1>1, <1>2, <1>3 DEF CoapTypeOK, GoOn, serverVars

\* What the server does: it takes the oldest request, and its answer a, if it is
\* not lost, has the id of the request and tells what the server has become.
Answers(req, a) ==
    /\ a \in Answer /\ a.id = req.id
    /\ toClient' = toClient \/ toClient' = Append(toClient, a)
    /\ \/ /\ req.cmd = "sensor"
          /\ a.reading = tick' /\ tick' = Succ(tick, Ticks)
          /\ UNCHANGED actuator_state
       \/ /\ req.cmd \in {"on", "off"}
          /\ "reading" \notin DOMAIN a
          /\ a.state = After(req.cmd) /\ actuator_state' = After(req.cmd)
          /\ UNCHANGED tick

LEMMA ServerQueues ==
    ASSUME CoapTypeOK, Server
    PROVE  /\ toServer # << >> /\ toServer' = Tail(toServer)
           /\ Head(toServer) \in Request
           /\ UNCHANGED <<clientVars, late>>
           /\ Fault("loss") \/ NoFault
           /\ \E a \in Answer : Answers(Head(toServer), a)
<1>1. /\ toServer # << >> /\ toServer' = Tail(toServer)
      /\ UNCHANGED <<clientVars, late>>
      /\ Fault("loss") \/ NoFault
  BY DEF Server, HandleGetSensor, HandleAction, Transmit
<1>2. Head(toServer) \in Request
  BY <1>1, TailType DEF CoapTypeOK
<1>3. Head(toServer).id \in 0 .. Ids - 1
  BY <1>2 DEF Request
<1>4. \E a \in Answer : Answers(Head(toServer), a)
  <2>1. CASE HandleGetSensor
    <3> DEFINE a == [id |-> Head(toServer).id, reading |-> Reading(tick)]
    <3>1. Reading(tick) \in 0 .. Ticks - 1
      BY TickType DEF Reading
    <3>2. a \in Answer /\ a.id = Head(toServer).id /\ a.reading = Reading(tick)
      BY <1>3, <3>1, AnswerRecord
    <3>3. /\ toClient' = toClient \/ toClient' = Append(toClient, a)
          /\ tick' = Reading(tick) /\ tick' = Succ(tick, Ticks)
          /\ Head(toServer).cmd = "sensor" /\ UNCHANGED actuator_state
      BY <2>1 DEF HandleGetSensor, Transmit, AnswerId, Reading
    <3> HIDE DEF a
    <3> QED
      BY <3>2, <3>3 DEF Answers
  <2>2. CASE HandleAction
    <3> DEFINE a == [id |-> Head(toServer).id,
                     state |-> After(Head(toServer).cmd)]
    <3>1. /\ a \in Answer /\ a.id = Head(toServer).id
          /\ a.state = After(Head(toServer).cmd) /\ "reading" \notin DOMAIN a
      BY <1>3, AnswerRecord DEF After
    <3>2. /\ toClient' = toClient \/ toClient' = Append(toClient, a)
          /\ actuator_state' = After(Head(toServer).cmd)
          /\ Head(toServer).cmd \in {"on", "off"} /\ UNCHANGED tick
      BY <2>2 DEF HandleAction, Transmit, AnswerId
    <3> HIDE DEF a
    <3> QED
      BY <3>1, <3>2 DEF Answers
  <2> QED
    BY <2>1, <2>2 DEF Server
<1> QED
  BY <1>1, <1>2, <1>4

LEMMA HandleType ==
    ASSUME CoapTypeOK, Server
    PROVE  CoapTypeOK'
<1>1. toServer \in Seq(Request) /\ toClient \in Seq(Answer)
  BY DEF CoapTypeOK
<1>2. toServer' \in Seq(Request)
  <2>1. toServer # << >> /\ toServer' = Tail(toServer)
    BY ServerQueues
  <2> QED
    BY <1>1, <2>1, TailType
<1>3. toClient' \in Seq(Answer)
  <2>1. PICK a \in Answer : toClient' = toClient \/ toClient' = Append(toClient, a)
    BY ServerQueues DEF Answers
  <2> QED
    BY <1>1, <2>1, SentType
<1>4. tick' \in 0 .. Ticks - 1
  BY TickType DEF CoapTypeOK, Server, HandleGetSensor, HandleAction
<1>5. actuator_state' \in {0, 1}
  BY DEF CoapTypeOK, Server, HandleGetSensor, HandleAction, After
<1>6. UNCHANGED <<clientVars, late>>
  BY ServerQueues
<1>7. faults' \in 0 .. MaxFaults /\ late' \in 0 .. faults'
  BY <1>6, ServerQueues, FaultType
<1> QED
  BY <1>2, <1>3, <1>4, <1>5, <1>6, <1>7 DEF CoapTypeOK, clientVars

LEMMA CoapInitType == CoapInit => CoapTypeOK
<1> SUFFICES ASSUME CoapInit PROVE CoapTypeOK
  OBVIOUS
<1>1. /\ msg_id \in 0 .. Ids - 1 /\ tick \in 0 .. Ticks - 1
      /\ faults \in 0 .. MaxFaults /\ late \in 0 .. faults
  BY CoapAssumption, SMT DEF CoapInit
<1>2. toServer \in Seq(Request) /\ toClient \in Seq(Answer)
  BY SMT DEF CoapInit
<1> QED
  BY <1>1, <1>2 DEF CoapInit, CoapTypeOK

\* Client and server stay within their types: ids, ticks and the actuator's
\* state wrap or switch, and every datagram is a request or an answer.
THEOREM CoapTypeCorrect == CoapSpec => []CoapTypeOK
<1>1. CoapInit => CoapTypeOK
  BY CoapInitType
<1>2. CoapTypeOK /\ [CoapNext]_vars => CoapTypeOK'
  <2> SUFFICES ASSUME CoapTypeOK, [CoapNext]_vars
               PROVE  CoapTypeOK'
    OBVIOUS
  <2>1. CASE UNCHANGED vars
    BY <2>1 DEF CoapTypeOK, vars, clientVars, serverVars
  <2> QED
    BY <2>1, SendType, WaitType, HandleType DEF CoapNext, Client
<1> QED
  BY <1>1, <1>2, PTL DEF CoapSpec

-----------------------------------------------------------------------------
(* What the client prints is at most as old as answers have been late. *)

Waiting == pc \in {"get_sent", "post_sent"}

\* How old a datagram on its way may be: a client that is not waiting has to
\* leave room for its next request.
Patience == IF Waiting THEN late ELSE late - 1

\* Datagrams are on their way in the order of their requests, the oldest first.
InOrder ==
    /\ \A k \in 1 .. Len(toServer) : Age(toServer[k]) <= Patience
    /\ \A k \in 1 .. Len(toClient) : Age(toClient[k]) <= Patience
    /\ \A j, k \in 1 .. Len(toServer) :
          j < k => Age(toServer[k]) < Age(toServer[j])
    /\ \A j, k \in 1 .. Len(toClient) :
          j < k => Age(toClient[k]) < Age(toClient[j])
    /\ \A j \in 1 .. Len(toClient) : \A k \in 1 .. Len(toServer) :
          Age(toServer[k]) < Age(toClient[j])

CoapInv == CoapTypeOK /\ InOrder /\ AnswerAge

\* Every datagram on its way has an id, and an age.
LEMMA AgesType ==
    ASSUME CoapTypeOK
    PROVE  /\ Len(toServer) \in Nat /\ Len(toClient) \in Nat
           /\ \A k \in 1 .. Len(toServer) :
                 /\ toServer[k] \in Request
                 /\ toServer[k].id \in 0 .. Ids - 1
                 /\ Age(toServer[k]) \in 0 .. Ids - 1
           /\ \A k \in 1 .. Len(toClient) :
                 /\ toClient[k] \in Answer
                 /\ toClient[k].id \in 0 .. Ids - 1
                 /\ Age(toClient[k]) \in 0 .. Ids - 1
           /\ late \in 0 .. MaxFaults /\ msg_id \in 0 .. Ids - 1
<1>1. /\ toServer \in Seq(Request) /\ toClient \in Seq(Answer)
      /\ msg_id \in 0 .. Ids - 1
  BY DEF CoapTypeOK
<1>2. late \in 0 .. MaxFaults
  BY CoapAssumption, SMT DEF CoapTypeOK
<1>3. /\ Len(toServer) \in Nat /\ Len(toClient) \in Nat
      /\ \A k \in 1 .. Len(toServer) : toServer[k] \in Request
      /\ \A k \in 1 .. Len(toClient) : toClient[k] \in Answer
  BY <1>1, SMT
<1>4. /\ \A d \in Request : d.id \in 0 .. Ids - 1
      /\ \A d \in Answer : d.id \in 0 .. Ids - 1
  BY DEF Request, Answer
<1> QED
  BY <1>1, <1>2, <1>3, <1>4, AgeNat DEF Age

\* A request is sent: everything on its way becomes older by one, and the new
\* one comes last.
LEMMA SendAges ==
    ASSUME CoapInv, SendGet \/ SendPost
    PROVE  /\ \A k \in 1 .. Len(toServer') :
                 \/ /\ k \in 1 .. Len(toServer) /\ toServer'[k] = toServer[k]
                    /\ Age(toServer[k])' = Age(toServer[k]) + 1
                 \/ /\ k = Len(toServer) + 1 /\ Age(toServer[k])' = 0
                    /\ pc = "post" => toServer'[k].cmd = Cmd(toggle)
           /\ \A k \in 1 .. Len(toClient) :
                 Age(toClient[k])' = Age(toClient[k]) + 1
           /\ \A k \in 1 .. Len(toServer) :
                 Age(toServer[k]) \in Nat /\ Age(toServer[k]) <= late - 1
           /\ \A k \in 1 .. Len(toClient) :
                 Age(toClient[k]) \in Nat /\ Age(toClient[k]) <= late - 1
           /\ Patience' = late /\ late \in Nat /\ Len(toServer) \in Nat
<1>1. PICK cmd \in {"sensor", "on", "off"} :
          /\ toServer' = toServer
                \/ toServer' = Append(toServer, [id |-> msg_id, cmd |-> cmd])
          /\ pc = "post" => cmd = Cmd(toggle)
  BY DEF SendGet, SendPost, Cmd, Transmit
<1> DEFINE d == [id |-> msg_id, cmd |-> cmd]
<1>2. /\ msg_id' = Succ(msg_id, Ids) /\ late' = late /\ toClient' = toClient
      /\ ~Waiting /\ Waiting'
  BY DEF SendGet, SendPost, Waiting
<1>3. Patience' = late /\ Patience = late - 1
  BY <1>2 DEF Patience
<1>4. CoapTypeOK /\ InOrder
  BY DEF CoapInv
<1>ages. /\ \A k \in 1 .. Len(toServer) : Age(toServer[k]) \in Nat
         /\ \A k \in 1 .. Len(toClient) : Age(toClient[k]) \in Nat
         /\ late \in Nat /\ Len(toServer) \in Nat /\ late < Ids - 1 /\ Ids \in Nat
  <2>1. 0 .. Ids - 1 \subseteq Nat /\ Ids \in Nat /\ MaxFaults < Ids - 1
    BY CoapAssumption, SMT
  <2>2. late \in 0 .. MaxFaults
    BY <1>4, AgesType
  <2>3. late \in Nat /\ late < Ids - 1
    BY <2>1, <2>2, CoapAssumption, SMT
  <2> QED
    BY <1>4, <2>1, <2>3, AgesType
<1>old. /\ \A k \in 1 .. Len(toServer) : Age(toServer[k]) <= late - 1
        /\ \A k \in 1 .. Len(toClient) : Age(toClient[k]) <= late - 1
  BY <1>3, <1>4 DEF InOrder
<1>5. /\ \A k \in 1 .. Len(toServer) :
             AgeOf(toServer[k].id, msg_id') = Age(toServer[k]) + 1
      /\ \A k \in 1 .. Len(toClient) :
             AgeOf(toClient[k].id, msg_id') = Age(toClient[k]) + 1
  <2>1. \A a \in Nat : a <= late - 1 => a < Ids - 1
    BY <1>ages, SMT
  <2>2. /\ \A k \in 1 .. Len(toServer) : Age(toServer[k]) < Ids - 1
        /\ \A k \in 1 .. Len(toClient) : Age(toClient[k]) < Ids - 1
    BY <2>1, <1>ages, <1>old, Zenon
  <2> QED
    BY <2>2, <1>2, <1>4, AgesType, AgeGrows DEF Age
<1>6. AgeOf(d.id, msg_id') = 0
  BY <1>2, <1>4, AgesType, AgeNew
<1>7. \A k \in 1 .. Len(toServer') :
          \/ k \in 1 .. Len(toServer) /\ toServer'[k] = toServer[k]
          \/ k = Len(toServer) + 1 /\ toServer'[k] = d
  <2>1. toServer \in Seq(Request) /\ d \in Request
    BY <1>4, AgesType, AnswerRecord DEF CoapTypeOK
  <2> QED
    BY <1>1, <2>1, SentType
<1>8. \A k \in 1 .. Len(toServer') :
          \/ /\ k \in 1 .. Len(toServer) /\ toServer'[k] = toServer[k]
             /\ Age(toServer[k])' = Age(toServer[k]) + 1
          \/ /\ k = Len(toServer) + 1 /\ Age(toServer[k])' = 0
             /\ pc = "post" => toServer'[k].cmd = Cmd(toggle)
  BY <1>1, <1>5, <1>6, <1>7 DEF Age
<1>9. \A k \in 1 .. Len(toClient) : Age(toClient[k])' = Age(toClient[k]) + 1
  BY <1>2, <1>5 DEF Age
<1> QED
  BY <1>3, <1>ages, <1>old, <1>8, <1>9

LEMMA SendInOrder ==
    ASSUME CoapInv, SendGet \/ SendPost
    PROVE  InOrder'
<1>2. toClient' = toClient /\ Patience' = late
  BY SendAges DEF SendGet, SendPost
<1>4. CoapTypeOK /\ InOrder
  BY DEF CoapInv
<1>ages. /\ \A k \in 1 .. Len(toServer) : Age(toServer[k]) \in Nat
         /\ \A k \in 1 .. Len(toClient) : Age(toClient[k]) \in Nat
         /\ late \in Nat /\ Len(toServer) \in Nat
  BY SendAges
<1>old. /\ \A k \in 1 .. Len(toServer) : Age(toServer[k]) <= late - 1
        /\ \A k \in 1 .. Len(toClient) : Age(toClient[k]) <= late - 1
  BY SendAges
<1>8. \A k \in 1 .. Len(toServer') :
          \/ /\ k \in 1 .. Len(toServer)
             /\ Age(toServer[k])' = Age(toServer[k]) + 1
          \/ k = Len(toServer) + 1 /\ Age(toServer[k])' = 0
  BY SendAges
<1>9. \A k \in 1 .. Len(toClient) : Age(toClient[k])' = Age(toClient[k]) + 1
  BY SendAges
<1>10. /\ \A k \in 1 .. Len(toServer') : Age(toServer[k])' <= late
       /\ \A k \in 1 .. Len(toClient) : Age(toClient[k])' <= late
  BY <1>ages, <1>old, <1>8, <1>9, SMT
<1>11. \A j, k \in 1 .. Len(toServer') :
          j < k => Age(toServer[k])' < Age(toServer[j])'
  <2> SUFFICES ASSUME NEW j \in 1 .. Len(toServer'), NEW k \in 1 .. Len(toServer'),
                      j < k
               PROVE  Age(toServer[k])' < Age(toServer[j])'
    OBVIOUS
  <2>1. k \in 1 .. Len(toServer) => Age(toServer[k]) < Age(toServer[j])
    BY <1>4, <1>8, <1>ages, SMT DEF InOrder
  <2>2. /\ j \in 1 .. Len(toServer) /\ Age(toServer[j])' = Age(toServer[j]) + 1
    BY <1>8, <1>ages, SMT
  <2>3. CASE k \in 1 .. Len(toServer) /\ Age(toServer[k])' = Age(toServer[k]) + 1
    BY <1>ages, <2>1, <2>2, <2>3, SMT
  <2>4. CASE Age(toServer[k])' = 0
    BY <1>ages, <2>2, <2>4, SMT
  <2> QED
    BY <1>8, <2>3, <2>4
<1>12. \A j, k \in 1 .. Len(toClient) :
          j < k => Age(toClient[k])' < Age(toClient[j])'
  BY <1>4, <1>9, AgesType, CoapAssumption, SMT DEF InOrder
<1>13. \A j \in 1 .. Len(toClient) : \A k \in 1 .. Len(toServer') :
          Age(toServer[k])' < Age(toClient[j])'
  <2>1. \A j \in 1 .. Len(toClient) : \A k \in 1 .. Len(toServer) :
           Age(toServer[k]) < Age(toClient[j])
    BY <1>4 DEF InOrder
  <2>2. \A a, b \in Nat : 0 < b + 1 /\ (a < b => a + 1 < b + 1)
    BY SMT
  <2> QED
    BY <2>1, <2>2, <1>ages, <1>8, <1>9, Zenon
<1> QED
  BY <1>2, <1>10, <1>11, <1>12, <1>13 DEF InOrder

\* The client prints the oldest answer: what is left is younger, and the answer
\* itself within bounds.
LEMMA ReceiveInOrder ==
    ASSUME CoapInv, ReceiveResponse
    PROVE  InOrder' /\ AnswerAge'
<1>1. CoapTypeOK /\ InOrder
  BY DEF CoapInv
<1>2. /\ toClient # << >> /\ toClient' = Tail(toClient)
      /\ shown' = Head(toClient) /\ msg_id' = msg_id
      /\ toServer' = toServer /\ late' = late
      /\ Waiting /\ ~Waiting'
  BY DEF ReceiveResponse, GoOn, Waiting
<1>3. Patience = late /\ Patience' = late - 1
  BY <1>2 DEF Patience
<1>4. /\ Head(toClient) = toClient[1] /\ 1 \in 1 .. Len(toClient)
      /\ \A k \in 1 .. Len(toClient') :
             toClient'[k] = toClient[k + 1] /\ k + 1 \in 1 .. Len(toClient)
  BY <1>1, <1>2, TailType DEF CoapTypeOK
<1>ages. /\ \A k \in 1 .. Len(toServer) : Age(toServer[k]) \in Int
         /\ \A k \in 1 .. Len(toClient) : Age(toClient[k]) \in Int
         /\ late \in Int /\ Len(toClient) \in Nat
  <2>1. /\ 0 .. Ids - 1 \subseteq Int /\ 0 .. MaxFaults \subseteq Int
    BY SMT
  <2> QED
    BY <1>1, <2>1, AgesType
<1>5. /\ Age(toClient[1]) <= late
      /\ \A k \in 1 .. Len(toServer) : Age(toServer[k]) < Age(toClient[1])
  BY <1>1, <1>3, <1>4 DEF InOrder
<1>6. \A k \in 1 .. Len(toClient') :
          /\ Age(toClient[k])' = Age(toClient[k + 1])
          /\ k + 1 \in 1 .. Len(toClient)
  BY <1>2, <1>4 DEF Age
<1>7. \A j, k \in 1 .. Len(toClient) :
          j < k => Age(toClient[k]) < Age(toClient[j])
  BY <1>1 DEF InOrder
<1>8. \A k \in 1 .. Len(toClient') : k \in Int /\ 1 < k + 1
  BY SMT
<1>9. \A k \in 1 .. Len(toClient') : Age(toClient[k])' <= late - 1
  BY <1>ages, <1>4, <1>5, <1>6, <1>7, <1>8, SMT
<1>10. \A k \in 1 .. Len(toServer) :
           Age(toServer[k])' = Age(toServer[k]) /\ Age(toServer[k]) <= late - 1
  BY <1>ages, <1>2, <1>4, <1>5, SMT DEF Age
<1>11. \A j, k \in 1 .. Len(toClient') :
           j < k => Age(toClient[k])' < Age(toClient[j])'
  BY <1>6, <1>7, <1>8, SMT
<1>12. \A j, k \in 1 .. Len(toServer) :
           j < k => Age(toServer[k])' < Age(toServer[j])'
  BY <1>1, <1>10 DEF InOrder
<1>13. \A j \in 1 .. Len(toClient') : \A k \in 1 .. Len(toServer) :
           Age(toServer[k])' < Age(toClient[j])'
  <2>1. \A j \in 1 .. Len(toClient) : \A k \in 1 .. Len(toServer) :
           Age(toServer[k]) < Age(toClient[j])
    BY <1>1 DEF InOrder
  <2> QED
    BY <2>1, <1>6, <1>10
<1>14. InOrder'
  BY <1>2, <1>3, <1>9, <1>10, <1>11, <1>12, <1>13 DEF InOrder
<1>15. AnswerAge'
  BY <1>2, <1>4, <1>5 DEF AnswerAge, Age
<1> QED
  BY <1>14, <1>15

\* The client gives up: either nothing is on its way, or it has been late once
\* more, which is the room that the next request needs.
LEMMA TimeoutInOrder ==
    ASSUME CoapInv, Timeout
    PROVE  InOrder'
<1>1. CoapTypeOK /\ InOrder
  BY DEF CoapInv
<1>2. /\ UNCHANGED <<toServer, toClient, msg_id>>
      /\ Waiting /\ ~Waiting'
  BY DEF Timeout, GoOn, Waiting
<1>3. CASE toServer = << >> /\ toClient = << >>
  <2>1. Len(toServer) = 0 /\ Len(toClient) = 0
    BY <1>3, SMT
  <2>2. 1 .. Len(toServer) = {} /\ 1 .. Len(toClient) = {}
    BY <2>1, SMT
  <2> QED
    BY <1>2, <2>2 DEF InOrder
<1>4. CASE ~(toServer = << >> /\ toClient = << >>)
  <2>1. late' = late + 1 /\ late \in Nat
    BY <1>1, <1>4, AgesType, SMT DEF Timeout
  <2>2. Patience' = Patience
    BY <1>2, <2>1, SMT DEF Patience
  <2> QED
    BY <1>1, <1>2, <2>2 DEF InOrder, Age
<1> QED
  BY <1>3, <1>4

\* The server takes the oldest request and answers under its id, or the answer
\* is lost.
LEMMA HandleAges ==
    ASSUME CoapInv, Server
    PROVE  /\ 1 \in 1 .. Len(toServer)
           /\ \A k \in 1 .. Len(toServer') :
                 /\ k \in Int /\ 1 < k + 1
                 /\ toServer'[k] = toServer[k + 1]
                 /\ k + 1 \in 1 .. Len(toServer)
                 /\ Age(toServer[k])' = Age(toServer[k + 1])
                 /\ Age(toServer[k + 1]) < Age(toServer[1])
           /\ \E a \in Answer :
                 /\ Answers(toServer[1], a)
                 /\ Age(a)' = Age(toServer[1])
                 /\ \A k \in 1 .. Len(toClient') :
                       \/ /\ k \in 1 .. Len(toClient)
                          /\ toClient'[k] = toClient[k]
                          /\ Age(toClient[k])' = Age(toClient[k])
                       \/ /\ k = Len(toClient) + 1 /\ toClient'[k] = a
                          /\ Age(toClient[k])' = Age(toServer[1])
           /\ Patience' = Patience /\ UNCHANGED <<clientVars, late>>
<1>1. CoapTypeOK /\ InOrder
  BY DEF CoapInv
<1>2. /\ toServer # << >> /\ toServer' = Tail(toServer)
      /\ msg_id' = msg_id /\ Patience' = Patience
      /\ UNCHANGED <<clientVars, late>>
  BY <1>1, ServerQueues DEF clientVars, Patience, Waiting
<1>3. PICK a \in Answer : Answers(Head(toServer), a)
  BY <1>1, ServerQueues
<1>4. /\ Head(toServer) = toServer[1] /\ 1 \in 1 .. Len(toServer)
      /\ \A k \in 1 .. Len(toServer') :
             toServer'[k] = toServer[k + 1] /\ k + 1 \in 1 .. Len(toServer)
  BY <1>1, <1>2, TailType DEF CoapTypeOK
<1>5. \A k \in 1 .. Len(toClient') :
          \/ k \in 1 .. Len(toClient) /\ toClient'[k] = toClient[k]
          \/ k = Len(toClient) + 1 /\ toClient'[k] = a
  BY <1>1, <1>3, SentType DEF CoapTypeOK, Answers
<1>6. \A k \in 1 .. Len(toServer') : Age(toServer[k])' = Age(toServer[k + 1])
  BY <1>2, <1>4 DEF Age
<1>7. Age(a)' = Age(toServer[1])
  BY <1>2, <1>3, <1>4 DEF Age, Answers
<1>8. \A k \in 1 .. Len(toClient') :
          \/ /\ k \in 1 .. Len(toClient) /\ toClient'[k] = toClient[k]
             /\ Age(toClient[k])' = Age(toClient[k])
          \/ /\ k = Len(toClient) + 1 /\ toClient'[k] = a
             /\ Age(toClient[k])' = Age(toServer[1])
  BY <1>2, <1>5, <1>7 DEF Age
<1>9. \A k \in 1 .. Len(toServer') : k \in Int /\ 1 < k + 1
  BY SMT
<1>10. \A j, k \in 1 .. Len(toServer) :
          j < k => Age(toServer[k]) < Age(toServer[j])
  BY <1>1 DEF InOrder
<1>11. \A k \in 1 .. Len(toServer') : Age(toServer[k + 1]) < Age(toServer[1])
  BY <1>4, <1>9, <1>10
<1> QED
  BY <1>2, <1>3, <1>4, <1>6, <1>7, <1>8, <1>9, <1>11

LEMMA HandleInOrder ==
    ASSUME CoapInv, Server
    PROVE  InOrder'
<1>1. CoapTypeOK /\ InOrder
  BY DEF CoapInv
<1>2. Patience' = Patience
  BY HandleAges
<1>4. 1 \in 1 .. Len(toServer)
  BY HandleAges
<1>6. \A k \in 1 .. Len(toServer') :
          /\ Age(toServer[k])' = Age(toServer[k + 1])
          /\ k + 1 \in 1 .. Len(toServer)
  BY HandleAges
<1>7. \A k \in 1 .. Len(toClient') :
          \/ k \in 1 .. Len(toClient) /\ Age(toClient[k])' = Age(toClient[k])
          \/ k = Len(toClient) + 1 /\ Age(toClient[k])' = Age(toServer[1])
  BY HandleAges
<1>8. \A k \in 1 .. Len(toServer') : k \in Int /\ 1 < k + 1
  BY SMT
<1>9. \A j, k \in 1 .. Len(toServer) :
          j < k => Age(toServer[k]) < Age(toServer[j])
  BY <1>1 DEF InOrder
<1>10. \A j \in 1 .. Len(toClient) : \A k \in 1 .. Len(toServer) :
           Age(toServer[k]) < Age(toClient[j])
  BY <1>1 DEF InOrder
<1>11. /\ \A k \in 1 .. Len(toServer') : Age(toServer[k])' <= Patience
       /\ \A k \in 1 .. Len(toClient') : Age(toClient[k])' <= Patience
  BY <1>1, <1>4, <1>6, <1>7 DEF InOrder
<1>12. \A j, k \in 1 .. Len(toServer') :
           j < k => Age(toServer[k])' < Age(toServer[j])'
  BY <1>6, <1>8, <1>9, SMT
<1>13. \A j, k \in 1 .. Len(toClient') :
           j < k => Age(toClient[k])' < Age(toClient[j])'
  <2>1. \A j, k \in 1 .. Len(toClient) :
           j < k => Age(toClient[k]) < Age(toClient[j])
    BY <1>1 DEF InOrder
  <2>2. Len(toClient) \in Nat
    BY <1>1, AgesType
  <2> QED
    BY <2>1, <2>2, <1>4, <1>7, <1>10, SMT
<1>14. \A j \in 1 .. Len(toClient') : \A k \in 1 .. Len(toServer') :
           Age(toServer[k])' < Age(toClient[j])'
  BY <1>4, <1>6, <1>7, <1>8, <1>9, <1>10
<1> QED
  BY <1>2, <1>11, <1>12, <1>13, <1>14 DEF InOrder

LEMMA CoapInvStep == CoapInv /\ [CoapNext]_vars => CoapInv'
<1> SUFFICES ASSUME CoapInv, [CoapNext]_vars
             PROVE  CoapInv'
  OBVIOUS
<1>1. CoapTypeOK
  BY DEF CoapInv
<1>2. CASE SendGet \/ SendPost
  <2>1. AnswerAge'
    BY <1>2 DEF SendGet, SendPost, AnswerAge, Idle
  <2> QED
    BY <1>1, <1>2, <2>1, SendType, SendInOrder DEF CoapInv
<1>3. CASE ReceiveResponse
  BY <1>1, <1>3, WaitType, ReceiveInOrder DEF CoapInv
<1>4. CASE Timeout
  <2>1. AnswerAge'
    <3>1. shown' = NoAnswer
      BY <1>4 DEF Timeout
    <3> QED
      BY <3>1 DEF AnswerAge, Idle
  <2> QED
    BY <1>1, <1>4, <2>1, WaitType, TimeoutInOrder DEF CoapInv
<1>5. CASE Server
  <2>1. AnswerAge'
    <3>1. UNCHANGED <<clientVars, late>>
      BY <1>1, <1>5, ServerQueues
    <3> QED
      BY <3>1 DEF CoapInv, AnswerAge, Idle, Age, clientVars
  <2> QED
    BY <1>1, <1>5, <2>1, HandleType, HandleInOrder DEF CoapInv
<1>6. CASE UNCHANGED vars
  BY <1>6
  DEF CoapInv, CoapTypeOK, InOrder, AnswerAge, Idle, Age, Patience, Waiting,
      vars, clientVars, serverVars
<1> QED
  BY <1>2, <1>3, <1>4, <1>5, <1>6 DEF CoapNext, Client

\* However many datagrams are lost or late, the client prints no answer that is
\* older than the number of answers that were late.
THEOREM AnswerAgeCorrect == CoapSpec => []AnswerAge
<1>1. CoapInit => CoapInv
  <2> SUFFICES ASSUME CoapInit PROVE CoapInv
    OBVIOUS
  <2>1. 1 .. Len(toServer) = {} /\ 1 .. Len(toClient) = {}
    BY SMT DEF CoapInit
  <2>2. InOrder
    BY <2>1 DEF InOrder
  <2>3. AnswerAge
    BY DEF CoapInit, AnswerAge, Idle
  <2> QED
    BY <2>2, <2>3, CoapInitType DEF CoapInv
<1>2. CoapInv => AnswerAge
  BY DEF CoapInv
<1> QED
  BY <1>1, <1>2, CoapInvStep, PTL DEF CoapSpec

-----------------------------------------------------------------------------
(* What an answer is worth when it is printed. *)

Lag(a) == Behind(a.reading, tick, Ticks)

\* Since the server took this reading it has taken at most one for every
\* request that came after, and the ones it has yet to see are not among them.
Fresh(a) ==
    "reading" \in DOMAIN a =>
        /\ Lag(a) <= Age(a)
        /\ \A k \in 1 .. Len(toServer) : Lag(a) + Age(toServer[k]) < Age(a)

\* The toggle of the last POST, which moves on when the client has waited.
Posted == IF pc = "post_sent" THEN toggle ELSE ~toggle

\* The answer to the last POST tells what the actuator is.
InForce(a) ==
    Age(a) = 0 => /\ a.state = After(Cmd(Posted))
                  /\ actuator_state = After(Cmd(Posted))

AllFresh ==
    /\ \A j \in 1 .. Len(toClient) : Fresh(toClient[j])
    /\ Idle => Fresh(shown)

\* What is printed is older than everything that is left for the server.
ShownFirst == Idle => \A k \in 1 .. Len(toServer) : Age(toServer[k]) < Age(shown)

\* Until the next GET the youngest datagram is the last POST or its answer.
LastPost ==
    pc \in {"post_sent", "get"} =>
        /\ \A k \in 1 .. Len(toServer) :
              Age(toServer[k]) = 0 => toServer[k].cmd = Cmd(Posted)
        /\ \A j \in 1 .. Len(toClient) : InForce(toClient[j])
        /\ Idle => InForce(shown)

WorthInv == CoapInv /\ AllFresh /\ ShownFirst /\ LastPost

\* A reading falls behind by one when the next is taken.
LEMMA LagGrows ==
    ASSUME NEW r \in 0 .. Ticks - 1, NEW t \in 0 .. Ticks - 1,
           Behind(r, t, Ticks) < Ticks - 1
    PROVE  Behind(r, Succ(t, Ticks), Ticks) = Behind(r, t, Ticks) + 1
  BY CoapAssumption, SMT DEF Behind, Succ

LEMMA LagType ==
    ASSUME NEW r \in 0 .. Ticks - 1, NEW t \in 0 .. Ticks - 1
    PROVE  Behind(r, t, Ticks) \in Nat /\ Behind(t, t, Ticks) = 0
  BY CoapAssumption, SMT DEF Behind

LEMMA ReadingType ==
    ASSUME NEW a \in Answer, "reading" \in DOMAIN a
    PROVE  a.reading \in 0 .. Ticks - 1
  BY DEF Answer

\* How late and how old anything can be is far from what wraps.
LEMMA Room ==
    ASSUME CoapInv
    PROVE  /\ \A k \in 1 .. Len(toServer) : Age(toServer[k]) \in Nat
           /\ \A j \in 1 .. Len(toClient) :
                 /\ Age(toClient[j]) \in Nat /\ Age(toClient[j]) < Ticks - 1
                 /\ toClient[j] \in Answer
           /\ Idle => /\ shown \in Answer /\ Age(shown) \in Nat
                      /\ Age(shown) < Ticks - 1
           /\ Ticks \in Nat /\ late \in Nat
<1>1. CoapTypeOK /\ InOrder /\ AnswerAge
  BY DEF CoapInv
<1>2. /\ late \in Nat /\ late < Ticks - 1 /\ Ticks \in Nat /\ 0 .. Ids - 1 \subseteq Nat
      /\ Patience <= late
  <2>1. late \in 0 .. MaxFaults
    BY <1>1, AgesType
  <2> QED
    BY <2>1, CoapAssumption, SMT DEF Patience
<1>3. Patience \in Int
  BY <1>2, SMT DEF Patience
<1>4. \A j \in 1 .. Len(toClient) :
          /\ Age(toClient[j]) \in Nat /\ Age(toClient[j]) <= Patience
          /\ toClient[j] \in Answer
  BY <1>1, <1>2, AgesType DEF InOrder
<1>5. \A j \in 1 .. Len(toClient) : Age(toClient[j]) < Ticks - 1
  BY <1>2, <1>3, <1>4, SMT
<1>6. ASSUME Idle
      PROVE  /\ shown \in Answer /\ Age(shown) \in Nat
             /\ Age(shown) < Ticks - 1
  <2>1. shown \in Answer
    BY <1>1, <1>6 DEF CoapTypeOK, Idle
  <2>2. shown.id \in 0 .. Ids - 1 /\ msg_id \in 0 .. Ids - 1
    BY <1>1, <2>1 DEF CoapTypeOK, Answer
  <2>3. Age(shown) \in Nat
    BY <1>2, <2>2, AgeNat DEF Age
  <2>4. Age(shown) <= late
    BY <1>1, <1>6 DEF AnswerAge
  <2> QED
    BY <1>2, <2>1, <2>3, <2>4, SMT
<1> QED
  BY <1>1, <1>2, <1>4, <1>5, <1>6, AgesType

\* A new request: answers age by one, and so do the requests before it.
LEMMA SendWorth ==
    ASSUME WorthInv, SendGet \/ SendPost
    PROVE  AllFresh' /\ ShownFirst' /\ LastPost'
<1>1. CoapInv /\ CoapTypeOK /\ AllFresh
  BY DEF WorthInv, CoapInv
<1>2. /\ ~Idle' /\ toClient' = toClient /\ tick' = tick /\ toggle' = toggle
      /\ actuator_state' = actuator_state
  BY DEF SendGet, SendPost, Idle, serverVars
<1>3. \A k \in 1 .. Len(toServer') :
          \/ /\ k \in 1 .. Len(toServer) /\ toServer'[k] = toServer[k]
             /\ Age(toServer[k])' = Age(toServer[k]) + 1
          \/ /\ k = Len(toServer) + 1 /\ Age(toServer[k])' = 0
             /\ pc = "post" => toServer'[k].cmd = Cmd(toggle)
  BY <1>1, SendAges
<1>4. \A j \in 1 .. Len(toClient) : Age(toClient[j])' = Age(toClient[j]) + 1
  BY <1>1, SendAges
<1>5. ASSUME NEW j \in 1 .. Len(toClient) PROVE Fresh(toClient[j])'
  <2> DEFINE a == toClient[j]
  <2> SUFFICES ASSUME "reading" \in DOMAIN a
               PROVE  /\ Lag(a) <= Age(a)'
                      /\ \A k \in 1 .. Len(toServer') :
                            Lag(a) + Age(toServer[k])' < Age(a)'
    BY <1>2 DEF Fresh, Lag
  <2>1. /\ Lag(a) <= Age(a)
        /\ \A k \in 1 .. Len(toServer) : Lag(a) + Age(toServer[k]) < Age(a)
    BY <1>1 DEF AllFresh, Fresh
  <2>2. Age(a) \in Nat /\ Age(a)' = Age(a) + 1
    BY <1>1, <1>2, <1>4, Room
  <2>3. Lag(a) \in Nat
    BY <1>1, Room, ReadingType, LagType DEF Lag, CoapTypeOK
  <2>4. \A k \in 1 .. Len(toServer) : Age(toServer[k]) \in Nat
    BY <1>1, Room
  <2> HIDE DEF a
  <2>5. ASSUME NEW k \in 1 .. Len(toServer')
        PROVE  Lag(a) + Age(toServer[k])' < Age(a)'
    <3>1. CASE k \in 1 .. Len(toServer) /\ Age(toServer[k])' = Age(toServer[k]) + 1
      BY <2>1, <2>2, <2>3, <2>4, <3>1, SMT
    <3>2. CASE Age(toServer[k])' = 0
      BY <2>1, <2>2, <2>3, <3>2, SMT
    <3> QED
      BY <1>3, <2>5, <3>1, <3>2
  <2>6. Lag(a) <= Age(a)'
    BY <2>1, <2>2, <2>3, SMT
  <2> QED
    BY <2>5, <2>6
<1>6. LastPost'
  <2> SUFFICES ASSUME pc' = "post_sent" PROVE LastPost'
    BY DEF LastPost, SendGet, SendPost
  <2>1. pc = "post" /\ Posted' = toggle
    BY <1>2 DEF SendGet, SendPost, Posted
  <2>2. /\ \A k \in 1 .. Len(toServer) : Age(toServer[k]) \in Nat
        /\ \A j \in 1 .. Len(toClient) : Age(toClient[j]) \in Nat
    BY <1>1, Room
  <2>3. \A n \in Nat : n + 1 # 0
    BY SMT
  <2>4. \A k \in 1 .. Len(toServer') :
           Age(toServer[k])' = 0 => toServer'[k].cmd = Cmd(toggle)
    BY <1>3, <2>1, <2>2, <2>3, Zenon
  <2>5. \A j \in 1 .. Len(toClient) : Age(toClient[j])' # 0
    BY <1>4, <2>2, <2>3, Zenon
  <2> QED
    BY <1>2, <2>1, <2>4, <2>5 DEF LastPost, InForce, Cmd
<1> QED
  BY <1>2, <1>5, <1>6 DEF AllFresh, ShownFirst

\* The client prints the first answer, with all that is known of it.
LEMMA ReceiveWorth ==
    ASSUME WorthInv, ReceiveResponse
    PROVE  AllFresh' /\ ShownFirst' /\ LastPost'
<1>1. CoapInv /\ CoapTypeOK /\ InOrder /\ AllFresh /\ LastPost
  BY DEF WorthInv, CoapInv
<1>2. /\ toClient # << >> /\ toClient' = Tail(toClient)
      /\ shown' = Head(toClient)
      /\ UNCHANGED <<msg_id, toServer, tick, actuator_state>>
  BY DEF ReceiveResponse, GoOn, serverVars
<1>3. /\ Head(toClient) = toClient[1] /\ 1 \in 1 .. Len(toClient)
      /\ \A k \in 1 .. Len(toClient') :
             toClient'[k] = toClient[k + 1] /\ k + 1 \in 1 .. Len(toClient)
  BY <1>1, <1>2, TailType DEF CoapTypeOK
<1>4. AllFresh'
  BY <1>1, <1>2, <1>3 DEF AllFresh, Fresh, Lag, Age
<1>5. ShownFirst'
  BY <1>1, <1>2, <1>3 DEF InOrder, ShownFirst, Age
<1>6. LastPost'
  <2> SUFFICES ASSUME pc' = "get" PROVE LastPost'
    BY DEF LastPost, ReceiveResponse, GoOn
  <2>1. pc = "post_sent" /\ Posted' = Posted
    BY <1>1 DEF ReceiveResponse, GoOn, Posted, Toggled, CoapTypeOK
  <2> QED
    BY <1>1, <1>2, <1>3, <2>1 DEF LastPost, InForce, Age
<1> QED
  BY <1>4, <1>5, <1>6

LEMMA TimeoutWorth ==
    ASSUME WorthInv, Timeout
    PROVE  AllFresh' /\ ShownFirst' /\ LastPost'
<1>1. CoapTypeOK /\ AllFresh /\ LastPost
  BY DEF WorthInv, CoapInv
<1>2. /\ ~Idle'
      /\ UNCHANGED <<msg_id, toServer, toClient, tick, actuator_state>>
  BY DEF Timeout, GoOn, serverVars, Idle
<1>3. AllFresh' /\ ShownFirst'
  BY <1>1, <1>2 DEF AllFresh, ShownFirst, Fresh, Lag, Age
<1>4. LastPost'
  <2> SUFFICES ASSUME pc' = "get" PROVE LastPost'
    BY DEF LastPost, Timeout, GoOn
  <2>1. pc = "post_sent" /\ Posted' = Posted
    BY <1>1 DEF Timeout, GoOn, Posted, Toggled, CoapTypeOK
  <2> QED
    BY <1>1, <1>2, <2>1 DEF LastPost, InForce, Age
<1> QED
  BY <1>3, <1>4

\* An answer that is there when the server takes another request: it falls
\* behind by at most one, and had room for that.
LEMMA FreshStays ==
    ASSUME WorthInv, Server, NEW a \in Answer, Age(a) \in Nat, Age(a) < Ticks - 1,
           Fresh(a)
    PROVE  Fresh(a)'
<1> SUFFICES ASSUME "reading" \in DOMAIN a
             PROVE  /\ Lag(a)' <= Age(a)'
                    /\ \A k \in 1 .. Len(toServer') :
                          Lag(a)' + Age(toServer[k])' < Age(a)'
  BY DEF Fresh
<1>1. CoapInv /\ CoapTypeOK
  BY DEF WorthInv, CoapInv
<1>2. /\ 1 \in 1 .. Len(toServer) /\ Age(a)' = Age(a)
      /\ \A k \in 1 .. Len(toServer') :
            /\ Age(toServer[k])' = Age(toServer[k + 1])
            /\ Age(toServer[k + 1]) < Age(toServer[1])
            /\ k + 1 \in 1 .. Len(toServer)
  BY <1>1, HandleAges DEF clientVars, Age
<1>3. Lag(a) + Age(toServer[1]) < Age(a)
  BY <1>2 DEF Fresh
<1>4. Lag(a) \in Nat /\ Age(toServer[1]) \in Nat /\ Ticks \in Nat
  BY <1>1, <1>2, Room, ReadingType, LagType DEF Lag, CoapTypeOK
<1>5. Lag(a) < Ticks - 1
  BY <1>3, <1>4, SMT
<1>6. tick' = tick \/ tick' = Succ(tick, Ticks)
  BY <1>1, ServerQueues DEF Answers
<1>7. Lag(a)' = Lag(a) \/ Lag(a)' = Lag(a) + 1
  BY <1>1, <1>5, <1>6, ReadingType, LagGrows DEF Lag, CoapTypeOK
<1>8. Lag(a)' <= Age(a)'
  BY <1>2, <1>3, <1>4, <1>7, SMT
<1>9. ASSUME NEW k \in 1 .. Len(toServer')
      PROVE  Lag(a)' + Age(toServer[k])' < Age(a)'
  <2>1. Age(toServer[k])' \in Nat /\ Age(toServer[k])' < Age(toServer[1])
    BY <1>1, <1>2, Room
  <2> QED
    BY <2>1, <1>2, <1>3, <1>4, <1>7, SMT
<1> QED
  BY <1>8, <1>9

\* The server takes the oldest request and answers it with a reading that is
\* new, or with the state that the request asks for.
LEMMA HandleWorth ==
    ASSUME WorthInv, Server
    PROVE  AllFresh' /\ ShownFirst' /\ LastPost'
<1>1. CoapInv /\ CoapTypeOK /\ InOrder /\ AllFresh /\ ShownFirst /\ LastPost
  BY DEF WorthInv, CoapInv
<1>2. /\ 1 \in 1 .. Len(toServer)
      /\ \A k \in 1 .. Len(toServer') :
            /\ toServer'[k] = toServer[k + 1] /\ k + 1 \in 1 .. Len(toServer)
            /\ Age(toServer[k])' = Age(toServer[k + 1])
            /\ Age(toServer[k + 1]) < Age(toServer[1])
      /\ UNCHANGED clientVars
  BY <1>1, HandleAges
<1>3. PICK a \in Answer :
          /\ Answers(toServer[1], a)
          /\ Age(a)' = Age(toServer[1])
          /\ \A k \in 1 .. Len(toClient') :
                \/ /\ k \in 1 .. Len(toClient) /\ toClient'[k] = toClient[k]
                   /\ Age(toClient[k])' = Age(toClient[k])
                \/ /\ k = Len(toClient) + 1 /\ toClient'[k] = a
                   /\ Age(toClient[k])' = Age(toServer[1])
  BY <1>1, HandleAges
<1>4. UNCHANGED <<pc, toggle, shown, msg_id, Posted>>
      /\ Idle' = Idle /\ Age(shown)' = Age(shown)
  BY <1>2 DEF clientVars, Idle, Posted, Age
<1>5. \A k \in 1 .. Len(toServer) : Age(toServer[k]) \in Nat
  BY <1>1, Room
<1>6. Fresh(a)'
  <2> SUFFICES ASSUME "reading" \in DOMAIN a
               PROVE  /\ Lag(a)' <= Age(a)'
                      /\ \A k \in 1 .. Len(toServer') :
                            Lag(a)' + Age(toServer[k])' < Age(a)'
    BY DEF Fresh
  <2>1. a.reading = tick' /\ tick' \in 0 .. Ticks - 1
    BY <1>1, <1>3, TickType DEF Answers, CoapTypeOK
  <2>2. Lag(a)' = 0
    BY <2>1, LagType DEF Lag
  <2> QED
    BY <1>2, <1>3, <1>5, <2>2, SMT
<1>7. AllFresh'
  <2>1. ASSUME NEW j \in 1 .. Len(toClient') PROVE Fresh(toClient[j])'
    <3>1. CASE j \in 1 .. Len(toClient) /\ toClient'[j] = toClient[j]
      <4>1. Fresh(toClient[j]) /\ toClient[j] \in Answer
        BY <1>1, <3>1, Room DEF AllFresh
      <4> DEFINE b == toClient[j]
      <4>2. Age(b) \in Nat /\ Age(b) < Ticks - 1
        BY <1>1, <3>1, Room
      <4>3. PICK c \in Answer : c = toClient[j]
        BY <4>1
      <4>4. Fresh(c) /\ Age(c) \in Nat /\ Age(c) < Ticks - 1
        BY <4>1, <4>2, <4>3
      <4>5. Fresh(c)'
        BY <4>4, FreshStays
      <4> QED
        BY <3>1, <4>3, <4>5 DEF Fresh, Lag, Age
    <3>2. CASE toClient'[j] = a
      BY <1>6, <3>2 DEF Fresh, Lag, Age
    <3> QED
      BY <1>3, <2>1, <3>1, <3>2
  <2>2. ASSUME Idle PROVE Fresh(shown)'
    <3>1. shown \in Answer /\ Age(shown) \in Nat /\ Age(shown) < Ticks - 1
      BY <1>1, <2>2, Room
    <3>2. PICK c \in Answer : c = shown
      BY <3>1
    <3>3. Fresh(c) /\ Age(c) \in Nat /\ Age(c) < Ticks - 1
      BY <1>1, <2>2, <3>1, <3>2 DEF AllFresh
    <3>4. Fresh(c)'
      BY <3>3, FreshStays
    <3> QED
      BY <1>4, <3>2, <3>4 DEF Fresh, Lag, Age
  <2> QED
    BY <1>4, <2>1, <2>2 DEF AllFresh
<1>8. ShownFirst'
  BY <1>1, <1>2, <1>4 DEF ShownFirst
<1>9. LastPost'
  <2> SUFFICES ASSUME pc \in {"post_sent", "get"} PROVE LastPost'
    BY <1>4 DEF LastPost
  <2>1. \A k \in 1 .. Len(toServer') :
            Age(toServer[k])' = 0 => toServer'[k].cmd = Cmd(Posted)'
    BY <1>1, <1>2, <1>4 DEF LastPost, Cmd
  <2>2. \A j \in 1 .. Len(toClient) : Age(toClient[j]) # 0
    <3>1. \A j \in 1 .. Len(toClient) :
             Age(toClient[j]) \in Nat /\ Age(toServer[1]) < Age(toClient[j])
      BY <1>1, <1>2, Room DEF InOrder
    <3> QED
      BY <1>2, <1>5, <3>1, SMT
  <2>3. Idle => Age(shown)' # 0
    <3>1. Idle => Age(shown) \in Nat /\ Age(toServer[1]) < Age(shown)
      BY <1>1, <1>2, Room DEF ShownFirst
    <3> QED
      BY <1>2, <1>4, <1>5, <3>1, SMT
  <2>4. Age(toServer[1]) = 0 =>
            /\ a.state = After(Cmd(Posted)) /\ actuator_state' = After(Cmd(Posted))
    <3>1. Age(toServer[1]) = 0 => toServer[1].cmd = Cmd(Posted)
      BY <1>1, <1>2 DEF LastPost
    <3>2. Cmd(Posted) # "sensor"
      BY DEF Cmd
    <3> QED
      BY <1>3, <3>1, <3>2 DEF Answers
  <2>5. \A j \in 1 .. Len(toClient') : InForce(toClient[j])'
    BY <1>3, <1>4, <2>2, <2>4 DEF InForce, After, Cmd
  <2> QED
    BY <1>4, <2>1, <2>3, <2>5 DEF LastPost, InForce
<1> QED
  BY <1>7, <1>8, <1>9

LEMMA WorthInvStep == WorthInv /\ [CoapNext]_vars => WorthInv'
<1> SUFFICES ASSUME WorthInv, [CoapNext]_vars
             PROVE  WorthInv'
  OBVIOUS
<1>1. CoapInv'
  BY CoapInvStep DEF WorthInv
<1>2. CASE UNCHANGED vars
  BY <1>1, <1>2
  DEF WorthInv, AllFresh, ShownFirst, LastPost, Fresh, InForce, Lag, Posted,
      Idle, Age, vars, clientVars, serverVars
<1> QED
  BY <1>1, <1>2, SendWorth, ReceiveWorth, TimeoutWorth, HandleWorth
  DEF WorthInv, CoapNext, Client

LEMMA WorthInvAlways == CoapSpec => []WorthInv
<1>1. CoapInit => WorthInv
  <2> SUFFICES ASSUME CoapInit PROVE WorthInv
    OBVIOUS
  <2>1. 1 .. Len(toServer) = {} /\ 1 .. Len(toClient) = {} /\ ~Idle
    BY SMT DEF CoapInit, Idle
  <2>2. CoapInv
    BY <2>1, CoapInitType DEF CoapInv, InOrder, AnswerAge
  <2> QED
    BY <2>1, <2>2 DEF WorthInv, AllFresh, ShownFirst, LastPost
<1> QED
  BY <1>1, WorthInvStep, PTL DEF CoapSpec

\* However many datagrams are lost or late, the reading that the client prints
\* is one of the last: the server has taken at most as many since as answers
\* have been late.
THEOREM ReadingAgeCorrect == CoapSpec => []ReadingAge
<1>1. WorthInv => ReadingAge
  <2> SUFFICES ASSUME WorthInv, Idle, "reading" \in DOMAIN shown
               PROVE  Lag(shown) <= late
    BY DEF ReadingAge, Lag
  <2>1. Lag(shown) <= Age(shown) /\ Age(shown) <= late /\ CoapInv /\ CoapTypeOK
    BY DEF WorthInv, CoapInv, AllFresh, Fresh, AnswerAge
  <2>2. shown \in Answer /\ Age(shown) \in Nat /\ late \in Nat
    BY <2>1, Room
  <2>3. Lag(shown) \in Nat
    BY <2>1, <2>2, ReadingType, LagType DEF Lag, CoapTypeOK
  <2> QED
    BY <2>1, <2>2, <2>3, SMT
<1> QED
  BY <1>1, WorthInvAlways, PTL

\* A POST that is answered in time is in force when the client prints the
\* answer, whatever was lost or late before it.
THEOREM AnsweredInForceCorrect == CoapSpec => []AnsweredIsInForce
<1>1. WorthInv => AnsweredIsInForce
  <2> SUFFICES ASSUME WorthInv, Idle, pc = "get", Age(shown) = 0
               PROVE  /\ shown.state = actuator_state
                      /\ actuator_state = 1 <=> ~toggle
    BY DEF AnsweredIsInForce
  <2>1. /\ shown.state = After(Cmd(~toggle))
        /\ actuator_state = After(Cmd(~toggle))
    BY DEF WorthInv, LastPost, InForce, Posted
  <2>2. toggle \in BOOLEAN
    BY DEF WorthInv, CoapInv, CoapTypeOK
  <2> QED
    BY <2>1, <2>2 DEF After, Cmd
<1> QED
  BY <1>1, WorthInvAlways, PTL
=============================================================================

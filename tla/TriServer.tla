----------------------------- MODULE TriServer -----------------------------
(***************************************************************************)
(* The position server of the project (Project/code/peripheral) and the    *)
(* samples it is sent.  Every board that hears an advertisement of a       *)
(* device writes one sample of it to the server; the server keeps one      *)
(* buffer per device and board and, every two seconds, takes samples from  *)
(* the fronts of the buffers for as long as every board has one.           *)
(*                                                                         *)
(* A sample is the number of the advertisement it was measured on.  What   *)
(* triangulate makes of the signal strengths is floating point geometry    *)
(* and left out: a position is the set of tuples it was averaged from.     *)
(***************************************************************************)
EXTENDS ScannerNode, Sequences, FiniteSets

CONSTANTS
    Device,      \* the devices that advertise
    MaxAdverts,  \* bound: [Device -> how often it advertises]
    Threaded     \* does bless call on_write in a thread of its own

ASSUME ServerAssumption ==
    MaxAdverts \in [Device -> Nat] /\ Threaded \in BOOLEAN

VARIABLES
    adverts,    \* advertisements each device has sent
    chan,       \* samples each board has written, in order
    missed,     \* advertisements of a device that gave no sample of a board
    buffers,    \* buffers[d][s], empty also when d is not known
    known,      \* the keys of buffers
    positions,  \* the tuples behind the last position of each device
    todo,       \* dequeue: the keys it has yet to visit
    keys        \* dequeue: the keys when it began; empty when it is not running

serverState == <<buffers, known, positions, todo, keys>>
sampleVars == <<adverts, chan, missed, serverState>>
vars == <<scannerVars, sampleVars>>

Count == UNION {0 .. MaxAdverts[d] : d \in Device}
Sample == [device : Device, advert : Count]
Tuple == [Scanner -> Count]

TypeOK ==
    /\ ScannerTypeOK
    /\ adverts \in [Device -> Count]
    /\ chan \in [Scanner -> Seq(Sample)]
    /\ missed \in [Device -> [Scanner -> Count]]
    /\ buffers \in [Device -> [Scanner -> Seq(Count)]]
    /\ known \subseteq Device
    /\ positions \in [Device -> SUBSET Tuple]
    /\ todo \subseteq keys /\ keys \subseteq known

NoBuffers == [d \in Device |-> [s \in Scanner |-> << >>]]

Init ==
    /\ ScannerInit
    /\ adverts = [d \in Device |-> 0]
    /\ chan = [s \in Scanner |-> << >>]
    /\ missed = [d \in Device |-> [s \in Scanner |-> 0]]
    /\ buffers = NoBuffers
    /\ known = {}
    /\ positions = [d \in Device |-> {}]
    /\ todo = {}
    /\ keys = {}

\* The samples of d that board s has written and the server has not handled.
AllInFlight(d, s) == Len(chan[s])   \* mutant: of any device
InFlight(d, s) ==
    Cardinality({k \in 1 .. Len(chan[s]) : chan[s][k].device = d})

\* A link is gone at either end: what was on it is lost.
LosesSamples(s) ==
    /\ chan' = [chan EXCEPT ![s] = << >>]
    /\ missed' = [d \in Device |->
                     [missed[d] EXCEPT ![s] = @ + InFlight(d, s)]]

\* send_message on board s gets past its checks and the write arrives.
Writes(s) == Streaming(s) /\ char_handle[s] = run
-----------------------------------------------------------------------------
\* Device d advertises once more: some of the boards that can pass it on hear
\* it (device_found, the branch of a ready connection), the others miss it.
Advertise(d) ==
    /\ adverts[d] < MaxAdverts[d]
    /\ adverts' = [adverts EXCEPT ![d] = @ + 1]
    /\ \E hear \in SUBSET {s \in Scanner : Writes(s)} :
          /\ chan' = [s \in Scanner |->
                 IF s \in hear
                 THEN Append(chan[s], [device |-> d, advert |-> adverts'[d]])
                 ELSE chan[s]]
          /\ missed' = [missed EXCEPT ![d] = [s \in Scanner |->
                           IF s \in hear THEN @[s] ELSE @[s] + 1]]
    /\ UNCHANGED <<scannerVars, serverState>>

\* on_write: the sample goes to the buffer of its device and board, which is
\* set up for a device that was not known.
OnWrite(s) ==
    /\ serving /\ chan[s] # << >>
    /\ keys = {} \/ Threaded
    /\ LET m == Head(chan[s])
       IN /\ known' = known \cup {m.device}
          /\ buffers' = [buffers EXCEPT ![m.device][s] = Append(@, m.advert)]
    /\ chan' = [chan EXCEPT ![s] = Tail(@)]
    /\ UNCHANGED <<scannerVars, adverts, missed, positions, todo, keys>>

\* Every two seconds main() calls dequeue, which returns when nothing is known.
Dequeue ==
    /\ serving /\ keys = {} /\ known # {}
    /\ keys' = known
    /\ todo' = known
    /\ UNCHANGED <<scannerVars, adverts, chan, missed, buffers, known, positions>>

\* How many tuples the while loop takes from the buffers of one device, the
\* tuples, and what it leaves in the buffers.
Shortest(b) ==
    LET lengths == {Len(b[s]) : s \in Scanner}
    IN CHOOSE k \in lengths : \A l \in lengths : k <= l
OneLeft(b) ==   \* mutant: the loop asks for more than one sample
    IF Shortest(b) = 0 THEN 0 ELSE Shortest(b) - 1
Rounds(b) == Shortest(b)
Newest(b, k) ==   \* mutant: pop() takes the newest sample
    [s \in Scanner |-> b[s][Len(b[s]) + 1 - k]]
Oldest(b, k) == [s \in Scanner |-> b[s][k]]
Tuples(b) == {Oldest(b, k) : k \in 1 .. Rounds(b)}
RestShort(b) ==   \* mutant: one board's sample is looked at and not taken
    LET one == CHOOSE s \in Scanner : TRUE
    IN [s \in Scanner |-> SubSeq(b[s], Rounds(b) + (IF s = one THEN 0 ELSE 1),
                                 Len(b[s]))]
Rest(b) == [s \in Scanner |-> SubSeq(b[s], Rounds(b) + 1, Len(b[s]))]

\* One turn of dequeue's loop over the keys.
DequeueDevice(d) ==
    /\ serving /\ d \in todo /\ known = keys
    /\ todo' = todo \ {d}
    /\ IF Rounds(buffers[d]) > 0
       THEN /\ positions' = [positions EXCEPT ![d] = Tuples(buffers[d])]
            /\ buffers' = [buffers EXCEPT ![d] = Rest(@)]
       ELSE UNCHANGED <<positions, buffers>>
    /\ UNCHANGED <<scannerVars, adverts, chan, missed, known, keys>>

\* The loop has visited every key.
DequeueEnds ==
    /\ serving /\ keys # {} /\ todo = {} /\ known = keys
    /\ keys' = {}
    /\ UNCHANGED <<scannerVars, adverts, chan, missed, buffers, known, positions,
                   todo>>

\* The process ends, with everything it keeps in memory: it is stopped, or the
\* loop over the keys raises because on_write has added a device meanwhile.
Stops ==
    /\ ServerEnds
    /\ chan' = [s \in Scanner |-> << >>]
    /\ missed' = [d \in Device |-> [s \in Scanner |->
                     missed[d][s] + InFlight(d, s)]]
    /\ buffers' = NoBuffers
    /\ known' = {}
    /\ positions' = [d \in Device |-> {}]
    /\ todo' = {}
    /\ keys' = {}
    /\ UNCHANGED adverts
Stopped == run < MaxRuns /\ Stops
Raised == keys # {} /\ known # keys /\ Stops

Started == ServerStarts /\ UNCHANGED sampleVars

BoardActs(s) == BoardStep(s) /\ UNCHANGED sampleVars

\* A link is lost with the samples that are on their way over it.
LinkLost(s) ==
    Disconnected(s) /\ LosesSamples(s) /\ UNCHANGED <<adverts, serverState>>

Next ==
    \/ \E d \in Device : Advertise(d) \/ DequeueDevice(d)
    \/ \E s \in Scanner : OnWrite(s) \/ BoardActs(s) \/ LinkLost(s)
    \/ Dequeue \/ DequeueEnds \/ Stopped \/ Raised \/ Started

\* Callbacks and timers that are due run, the server's loop goes on, and whoever
\* runs the server starts it again.
Fairness ==
    /\ \A s \in Scanner :
          /\ WF_vars(NoFault /\ BtReady(s) /\ UNCHANGED sampleVars)
          /\ WF_vars(NoFault /\ ScanWorkHandler(s) /\ UNCHANGED sampleVars)
          /\ WF_vars(NoFault /\ ServerFound(s) /\ UNCHANGED sampleVars)
          /\ WF_vars(LinkUp(s) /\ UNCHANGED sampleVars)
          /\ WF_vars(NoFault /\ ConnectFailed(s) /\ UNCHANGED sampleVars)
          /\ WF_vars(NoFault /\ Connected(s) /\ UNCHANGED sampleVars)
          /\ WF_vars(DiscoverAttr(s) /\ UNCHANGED sampleVars)
          /\ WF_vars(NoFault /\ DiscoverDone(s) /\ UNCHANGED sampleVars)
          /\ WF_vars(NoFault /\ LinkLost(s))
          /\ WF_vars(OnWrite(s))
    /\ \A d \in Device : WF_vars(DequeueDevice(d))
    /\ WF_vars(Dequeue) /\ WF_vars(DequeueEnds)
    /\ WF_vars(Raised) /\ WF_vars(Started)

Spec == Init /\ [][Next]_vars /\ Fairness
-----------------------------------------------------------------------------
\* The samples one position is computed from are of the same advertisement but
\* for those that a board did not deliver: a tuple pairs the first sample of
\* each board with the first of the others, so what a board misses shifts all
\* that follows, and by no more than that.
SkewPaid ==
    \A d \in Device : \A t \in positions[d] : \A s, r \in Scanner :
        t[s] - t[r] <= missed[d][s]

\* No sample is used twice, and a position is never replaced by one computed
\* from older samples: dequeue pops what it has used from every buffer.
PositionsAdvance ==
    [][\A d \in Device :
           positions'[d] # positions[d] =>
               \A t \in positions[d], u \in positions'[d] :
                   \A s \in Scanner : t[s] < u[s]]_vars

\* What every board has delivered is used: a device that all boards have a
\* sample of gets its position from it, unless the server ends.
Located ==
    \A d \in Device :
        (\A s \in Scanner : buffers[d][s] # << >>) ~>
            \/ \E s \in Scanner : buffers[d][s] = << >>
            \/ ~serving
=============================================================================

# Verification of the wireless network labs

TLA+ models of the firmware and programs in this repository, the TLC
configurations that check them on small instances, and TLAPS proofs of the
properties that hold for every instance.  Paths below are relative to the
repository root (`src/`).

## 1. The system

The repository holds four university labs and a project, each a small
distributed system of nRF52840 boards under Zephyr, with Python programs at the
edge.  Its own logic is in these parts.

| part | state it keeps | operations | interacts through |
|---|---|---|---|
| **Lab 2 button network** (`Lab2/code/pt1_2`) | connection table, characteristic handles, scan work, last timestamp, LED, send loop of the SOURCE | `bt_ready`, `scan_work_handler`, `device_found`, `connected`, `discover_cb`, `disconnected`, `button_thread`/`send_message_SOURCE`, `send_message_to_all`, `on_write`/`redirect_message_TARGET` | callbacks of the Bluetooth stack, GATT writes from board to board |
| **Lab 2 measurement network** (`Lab2/code/pt3_4`) | the same table plus `conn_ready`, per-origin timestamps, measurement counter | the same, with rescanning after each discovery, a button that starts the TARGET, periodic measurements, `redirect_message_SOURCE` | the same |
| Lab 1 central and peripheral (`Lab1/code/pt2`) | one connection, one handle, a periodic read | `connected`, `disconnected`, `discover_char_cb`, `perform_read`, `start_scan` | GATT reads |
| Lab 1 broadcaster, observer (`Lab1/code/pt1`) | nothing that a later step depends on | advertise, print | advertisements |
| Lab 1 port scanner (`Lab1/code/pt3/PortScanner.py`), Lab 2 log script (`Lab2/code/Lab2Scanner.py`) | lists of sent and received lines | matching, statistics | serial lines, log files |
| Lab 3 CoAP client and server (`Lab3/CoAP Client`, `Lab3/CoAP Server`) | message id, token, toggle; sensor tick, actuator | GET /sensor, POST /action, receive with a 2 s timeout | UDP datagrams, which may be lost, delayed or reordered |
| Lab 3 sender, receiver | nothing | periodic datagram, print | UDP |
| Project scanner firmware (`Project/code/scanner`) | one connection, handle, `conn_ready`, scan work | as in Lab 2, and one RSSI sample per advertisement heard | GATT writes to the position server |
| Project position server (`Project/code/peripheral/peripheral.py`) | three sample buffers per device, positions | `on_write`, `dequeue` every two seconds | GATT writes |
| Project analysis scripts, Lab 0 samples, Renode scripts, reports | none | none to check | none |

### What is hard about it

* **Callbacks and a main thread on shared tables.**  The SOURCE of Lab 2 walks
  the connection table in its main thread while callbacks of the Bluetooth
  thread store into it, clear slots of it and share its write parameters.
* **Half-open links.**  The two ends learn of a connection, and of its loss, at
  different times; a discovery may be outstanding on a link that is gone.
* **Everyone waits.**  A board scans or connects, never both; two boards may
  connect to each other at once; a board that stops scanning depends on others
  to find it.
* **Slots and timestamps that only grow** and limits (8 connections, the pool of
  connection objects) that are reached by long runs of legal events.
* **One chance to go on.**  The Lab 1 central scans from whichever callback comes last and
  never retries; its periodic read ends when it once finds no connection.
* **A peer that starts again.**  The position server may end (also by itself, when a write comes
  at the wrong moment) and be started again under scanners that keep links and handles.
* **Pairing what carries no name.**  Samples of three boards, and lines of two logs, are put
  together by position or by value.
* **Loss and order.**  Events are dropped with links and refused writes; old ones
  must not overwrite newer ones; boards may form rings.

Every one of these is listed with its line under `hazards` in `PROJECT.json`,
next to the properties that would catch it going wrong.

For each part, what makes it correct:

* connection management: the table and the links agree at every moment, whatever
  comes and goes; handles and ready flags belong to the link they are used on; slots
  are used up by failures only; scans are retried; nobody is left alone;
* flooding of events: LEDs show what was pressed, in order; the traffic ends;
* relaying of measurements: they arrive, once, unaltered, and do not come back;
* CoAP: an answer is printed for the request it answers, and client and server
  agree about the actuator;
* scanner and position server: scanners never stop looking and find a server that was started again;
  the samples that are paired belong together but for those that were missed; positions do not go back;
* Lab 1 central: the pointer leads to the link there is, readings go on, and the script counts as lost only
  what was not read.

## 2. The modules

| module | models | extends |
|---|---|---|
| `BleLink` | the Zephyr host and controllers (external): scanning, connection creation, both ends of every link, discovery in progress, the pool of connection objects, failures | |
| `ConnTable` | what both Lab 2 programs have in common: the connection table and the callbacks around it | `BleLink` |
| `ButtonMesh` | connection management of `pt1_2/network_node/src/main.c` | `ConnTable` |
| `LatestEvent` | abstract specification: what the button network promises | |
| `ButtonFlood` | button events over the links of `ButtonMesh`, implements `LatestEvent` | `ButtonMesh` |
| `SensorMesh` | connection management of `pt3_4/network_node/src/main.c` | `ConnTable` |
| `SensorRelay` | measurements over the links of `SensorMesh` | `SensorMesh` |
| `CoapPair` | the CoAP client and server of Lab 3 and the datagrams between them | |
| `ScannerNode` | the project's scanner firmware, and the start and end of the server it looks for | |
| `TriServer` | the position server: samples on their way, buffers, the loop over them | `ScannerNode` |
| `TempCentral` | the Lab 1 central and the peripherals it reads | `BleLink` |
| `PortScanner` | the pairing of lines of the Lab 1 script, as operators | |
| `TempLog` | central, peripherals and script together | `TempCentral`, `PortScanner` |
| `ConnTable_proof`, `ButtonMesh_proof`, `ButtonFlood_proof`, `SensorMesh_proof`, `SensorRelay_proof`, `CoapPair_proof`, `TriServer_proof` (with `ScannerNode`), `TempLog_proof` (with `TempCentral`) | lemmas and theorems | the module of the name, and the proofs of what that extends |
| `MCButtonMesh`, `MCButtonFlood`, `MCSensorMesh`, `MCSensorRelay`, `MCTriServer`, `MCTempLog` | topologies, numbers and symmetry for TLC | |

A definition marked *mutant* is a plausible mistake in the definition below it, kept to show
that the properties notice it; no specification uses it.

### From code to model

`BleLink` is not in the repository.  It is what the code relies on: a scan start is
refused while a scan or a connection creation is under way; `bt_conn_le_create`
is refused when another creation is outstanding, when there already is a link to
that peer, or when the pool `CONFIG_BT_MAX_CONN` is exhausted; each end of a link
goes down ➜ pending ➜ up ➜ (closing ➜) down, and the two ends do so at different
times; a procedure outstanding on a link fails before `disconnected` is called.

`ConnTable`, `ButtonMesh` and `SensorMesh` have one action per callback or work handler, run to its end:
these run in Zephyr's cooperative Bluetooth and system work-queue threads, which do not
preempt each other.  `default_connections`, `num_connections`, `char_handles`, `conn_ready`
and `scan_work` are the variables of the same names; a connection pointer is the
peer it leads to and a handle is known or 0.  `network_formed` is never set and is left out.
A board that leaves defined behaviour (`ConnectedOverrun`: a store past the table; `SendWriteNull`: a
write to a null connection) is marked in `halted` and not followed any further.

The two programs differ in the discovery.  In `pt1_2` `discover_cb` returns
`BT_GATT_ITER_STOP` for the first attribute (`DiscoverFound`): the stack then
makes no further call, so the branch for `attr == NULL` is taken only when the
discovery fails (`DiscoverError`, and the discovery cut off in `Disconnected`).  In `pt3_4` it
continues (`DiscoverAttr`) until it is called without an attribute (`DiscoverDone`), which
opens the slot and, on a SOURCE, schedules the next scan.

`ButtonFlood` and `SensorRelay` add the main threads, which callbacks may interrupt
between any two steps of `send_message_to_all`: `SendCheck` makes the tests of one turn of the
loop and fills in the parameters of the write, `SendWrite` reads the
connection again and hands the message to the stack.  `OnWrite` is a whole
`on_write` call with the forwarding it does.  `chan[n][p]` holds what `n` wrote and `p` has not
handled, in order; it is lost with `p`'s end of the link.

In `ButtonFlood` `clobbered` says that a callback on the SOURCE has pointed `write_params[i].data`
at its own stack frame while the main thread was between filling it in and `bt_gatt_write`; what is then
sent is any message (`Garbage`): any timestamp up to `MaxTimestamp`, also one beyond those of the events, and an event that need not be one.  The last event a board has accepted (`Accepted`)
is therefore not always what it shows: `redirect_message_TARGET` keeps the timestamp before it looks at the event.  In `SensorRelay` both fill in `messages[i]`, which is
packed and starts with the node number: a relay that preempts the main thread leaves the relayed message there,
or its first fields followed by those the main thread copies afterwards (`Overwritten`).  Timestamps
are per board: the counter of a board stands for its clock, which the others do not share.

`CoapPair` is the two endless loops of Lab 3 with their datagrams in order (`toServer`, `toClient`): the boards are one
hop apart and both ends handle one datagram at a time.  `SendGet`/`SendPost` and `ReceiveResponse`/`Timeout` are the two halves of
a turn of the client's loop, which waits in `receive_response` in between.  A datagram is lost when it is sent; an answer is late when the two seconds pass
while the request or its answer is still on its way (a timeout with nothing under way is not a failure of its own: the loss was).  Message ids wrap
as in the code; the token goes in step with them and nobody reads it.  The three simulated values are functions of
`tick` (with periods 10, 8 and 5), so a reading is the tick it was computed from.

`ScannerNode` does not extend `BleLink`: with `CONFIG_BT_MAX_CONN=1` a board has one connection
object and one possible peer, so the object's state (`link`) and whether the server's end exists
(`served`) are all there is of a link.  `default_connection` is the pointer (null or that object), `conn_ready` is the flag,
and `char_handle` is 0 or the run of the server in which the handle was discovered: a server that is started again may place its
characteristic elsewhere.  `ServerFound` is `device_found` for an advertisement of the server, `Advertise` of `TriServer` is the
same callback for any other device on every board at once, of which some hear it.  `Disconnected` includes the call of
`discover_cb` without an attribute that a cut-off discovery ends with (it sets `conn_ready`, which `disconnected` clears right after).

`TriServer` adds `chan[s]`, what board `s` wrote and the server has not handled, and the variables of `peripheral.py`:
`buffers`, its keys `known`, `positions`.  A sample is the number of the advertisement it was measured on.  `Dequeue`, `DequeueDevice` and
`DequeueEnds` are `dequeue()`, one turn of its loop at a time (`keys` and `todo` are its iterator), because `bless` may call `on_write` in a
thread of its own (`Threaded`).  A device that is added meanwhile makes the iterator raise at its next step
(`Raised`), which ends the process; `Stopped` is the process being ended by its user, `Started` its next run.  `missed[d][s]`
counts the advertisements of `d` that board `s` did not deliver, because it did not hear them or the sample was lost with a link or the server; it is
not in the code and no action reads it.

In `TempCentral` every call of `start_scan` is one of three outcomes: accepted (`ScanOn`), refused because the controller is already scanning or
initiating, which leaves `scanning` as it is, or refused for a reason of the controller's (`ScanRefused`, a failure).  `read_work` is the state of the
delayable work of `perform_read`: scheduling it again while it is scheduled has no effect (`ReadSoon`).  `reads` are the outstanding reads in order;
the peripheral fills in its temperature when it answers, the central prints it later.  `TempLog` adds the SEND and RECV lines with their time, which is
the place of the event among all printed lines; a RECV line also carries the id of what was really read (`of`), which `PortScanner` does not look at.
`given_up` remembers that the discovery on the present link has failed, for stating `ReadingsGoOn`; no action reads it.

## 3. What the runs check

| run | instance | properties | what it shows |
|---|---|---|---|
| `mesh_safety` | 3 boards in range of each other, pool of 2, table of 3, 2 failures (`stop`, `create`, `discover`, `att`, `loss`) | `TableTypeOK`, `TableMatchesLinks`, `FreshHandles`, `DeadSlotsPaid` | table and links correspond one to one; handles belong to the link they are used on; a dead slot costs a failure |
| `mesh_live` | 3 boards in a row, 1 failure of any kind but `att` | `NobodyAlone`, `ScanRetried`, `LinkSettles` | scans are retried until they start, links become usable or close, and a board is never left alone unless something fails |
| `flood_row` | 3 boards in a row, 3 events, a lost link or a refused write | `TypeOK`, `Genuine`, `SenderKnown`, `NoDuplicateTraffic`, `ShowsLatestEvents` | the flood implements `LatestEvent`; `on_write` always finds the slot of the sender, so nothing is sent back |
| `flood_ring` | 3 boards in range of each other (rings form), 3 events | `ForwardsOnce`, `Converges`, `FloodEnds` | what a TARGET has on its way to a neighbour rises, no event twice; as long as no prepared write is redirected, every board of a formed network comes to show each event or a newer one, for good; no broadcast storm |
| `sensor_mesh` | 3 boards in a row, tables and pool of 2, 1 failure of any kind but `connect` and `stop` | `FreshReady`, `SourcesConnect`, `SourcesSearchOn` | ready flags stay with their links while links are lost and replaced; SOURCEs go on until they have all their neighbours, unless a lost link or a failed discovery hurt one of the two; a search ends only with a failure or an occupied board |
| `sensor_relay` | 2 SOURCEs and the sink, formed, 2 and 1 measurements, 1 refused write, preemption or lost link | `RelayTypeOK`, `NoEcho`, `DamagePaid`, `Arrives` | measurements arrive, once and unaltered, unless something fails, and do not travel back |
| `coap_pair` | client and server, 8 ids, 6 ticks, 3 lost or late datagrams, no bound on the requests | `CoapTypeOK`, `AnswerAge`, `ReadingAge`, `AnsweredIsInForce`, `KeepsSwitching` | a late answer puts the client behind for good, and by no more than it was late; what was answered in time is in force; the actuator goes on switching |
| `tri_server` | 2 boards, 2 devices (2 and 1 advertisements), the server started twice, 1 failure of any kind, `on_write` in its own thread | `TypeOK`, `SearchesOn`, `PointerTracksLink`, `FreshHandle`, `SkewPaid`, `PositionsAdvance`, `Recovers`, `Located` | a board is never deaf and finds a server that stays, whatever was lost before, unless a failure left it stuck; a handle is never that of an earlier run; samples are paired apart by no more than was missed, none is used twice; what all boards delivered is used |
| `temp_log` | the central and one peripheral (`pt2.resc`), 3 failures of any kind, 3 temperatures of 2 values, 2 reads outstanding | `TypeOK`, `PointerTracksLink`, `LossIsReal`, `DeafOnlyByFailure`, `ReadingsGoOn` | the pointer follows the link; only a refused scan makes the central deaf; readings go on for ever unless a refused scan or a failed discovery ends them; the script calls nothing lost that was read |
| `bug_overrun` | 2 boards, table of 2, 2 lost links | `NoOverrun` violated | the third connection is stored past the table |
| `bug_partition` | 4 boards in a row, no failure | `ConnectsToAllInRange` violated | two pairs form and nobody scans any more |
| `bug_relay` | the row of `pt3.resc`: 3 SOURCEs and the sink, no failure | `FreshRelayed` violated | a relay drops a new measurement because of the clock of another board |

**Bounds.**  Three boards are the fewest that can compete for one another (two
connect while a third wants to), form a ring, and forward a message; four in a row
are the fewest that can split, and the fewest in which a relay hears two SOURCEs through one slot
on the way to the sink.  A table of three slots is full within two
reconnections; a pool of two objects refuses while one link and one attempt are under
way.  `MaxFaults` bounds the failures of a behaviour, not their time or place.
Two scanners are one that is ahead and one that is behind; the device that advertises twice gives a second position and a triple shifted by a
missed sample, and the other one a key that is added while the loop runs.  Three temperatures of two values give a temperature that is sent twice and one that is
overtaken; three failures let a callback fail while the consequences of earlier failures are still going on.
The kinds of failure are `boot`, `scan`, `create`, `discover` and `write` (a call that is refused), `stop` (a scan that cannot be stopped: the board may go on scanning or not), `connect` (a lost connection
request), `att` (an error answer to a discovery) and `loss` (a lost link).  `MaxTimestamp` = 3 in `flood_ring` gives a wrong message a timestamp beyond those of the events, after which its reader
accepts none; in a row no write is ever redirected, so `flood_row` needs no timestamp beyond the last event's.
`MaxPresses` = 3 gives an event that is dropped (the first), one that is accepted and one
that overtakes it; two measurements of the far board and one of its neighbour give one that is newer than another board's and one that
is not.  `sensor_relay` and `bug_relay` start where a row has just formed
(`FormedInit`, with the slots in either order and every board scanning on, the sink because its button was pressed; `SensorMesh` reaches these states), which leaves the budget of failures to what
follows.  `coap_pair` needs no bound on requests: ids and ticks come round, and both are more than the answers that can be late.
`mesh_safety` uses symmetry of the TARGETs, which only safety
properties are checked under.  Deadlock is checked in `coap_pair` only: a network that has formed
and whose button rests, or whose measurements, advertisements or restarts are used up, has nothing to do, and a central that has gone deaf stops.

**Fairness.**  A callback or work item that stays due is run (`WF` of each action, restricted
to its failure-free outcome): the threads that run them never block for
ever, and a failure is never owed.  The controllers complete a connection both sides keep wanting.
Main threads keep running and written messages
that are not lost with their link are delivered.  Nobody has to press the sink's button.  The two CoAP loops go on (`WF` of each as a whole).
The position server's loop goes on (`asyncio.sleep(2)`, then `dequeue`), samples that are on a link that stays are handled, and somebody starts the server
again as long as `MaxRuns` allows; nobody has to stop it, and no device has to advertise.  In `temp_log` answers arrive and the five seconds of `perform_read` pass.  `Converges`,
`FloodEnds` and `Arrives` need no fairness of connection management: they speak of networks that
are formed, and of traffic on the links that exist.

**What does not hold** (besides the violated runs): the first event has timestamp 0 and `redirect_message_TARGET` accepts only timestamps above its
initial 0, so no TARGET ever shows it and `ShowsLatestEvents` and `Converges` are stated for the later ones; `send_message_to_all` reads the connection again after its NULL check, and a link
lost in between makes it write to a null connection (`SendWriteNull`, which the runs with losses reach); in `pt1_2` with a failed discovery
(`discover_cb` with an error, or `bt_gatt_discover` refused) nothing scans again on the
SOURCE, although `main.c:292` says so; a link whose discovery failed with an ATT error
stays up without a handle, so `LinkSettles` is checked without that failure; in a ring
the SOURCE handles its own older events like a TARGET, and its two threads share
`write_params`: a redirected write may even carry a timestamp above those of all events, after which the boards it reaches accept no event any more.  So `Genuine` and the refinement are stated for networks without cycles,
and `Converges` for behaviours in which no prepared write is redirected; the LED of the SOURCE in a ring is covered by no property.  A scan that cannot be stopped (`main.c:401`) ends `device_found` without an attempt and
without a new scan: such a board may be deaf.  `NobodyAlone` excepts behaviours with a failure, and `sensor_mesh` is run without this one.  In `pt3_4`
a lost link is not replaced when the relay is not scanning at that moment, or when its next attempt times out:
`disconnected()` and the error branch of `connected()` schedule no scan, so `SourcesConnect`
excepts the boards that lost a link, and its run has no connection request that times out; what remains true is `SourcesSearchOn`: only a failure, or a request that times out because the other board is occupied (`Occupied`), ends a search; and `DamagePaid` allows the damage of a preempted copy.  The CoAP client prints
an answer without comparing its id or token: one late answer and, until another datagram is lost, every answer it prints is that of the request before.
A scanner whose discovery failed is `Stuck`: `discover_cb` marks the connection as ready without a handle, so that the board neither sends nor looks for a server until the link is lost.
The Lab 1 central goes deaf for good when `start_scan` is refused once, and stops reading after a failed discovery.  The position server ends when `on_write` adds a device
while `dequeue` iterates, and one missed sample shifts all later triples of its device: `SkewPaid` bounds by how much.  With equal temperatures the script may pair a line with the wrong reading:
`LossIsReal` promises exact pairs only when all temperatures differ, and otherwise that losses are not overstated.

## 4. What is proved

The proofs hold for every set of boards, every topology, table length, pool size
and number of failures (for CoAP: every number of ids, ticks and failures), from the assumptions on the constants that each module names only:
`RadioAssumption`, `FiniteNodes`, `PoolAssumption`, `TableAssumption`, `MeshAssumption`, `PressAssumption`, `SinkAssumption`, `RelayAssumption`, `CoapAssumption`, `ScannerAssumption`,
`ServerAssumption`, `CentralAssumption`, `OneConnection`, `LogAssumption`.  `RelayAssumption` asks for a table of at least one slot (`MAX_CONNECTIONS` is 8) and for the
ids of the SOURCEs to be different slot numbers, as `main.h` and the Renode scripts give them.

A few theorems speak of networks without cycles, because the code keeps their property only there (section 3, *What does not hold*).  They have the shape `ASSUME NEW up, Tree(up) PROVE ...`: `Rooted(up, root, hears)` of
`BleLink` says that `up` leads every board one hop towards `root`, that each pair of boards in range is such a hop, and that no two boards lead to each other.  `MCButtonFlood` and `MCSensorRelay` give such an `up` for
the rows they run on, and TLC evaluates the assumption `RowIsTree`, so the hypotheses are met by what is checked.

**`ConnTable_proof`** holds what the two Lab 2 networks share.  `TableMatchesLinks` and the freshness of handles and flags are not
inductive by themselves.  `TableInv` adds the types and that a discovery is
outstanding only on a link that is up (`DiscoversOnUp`).  Three lemmas say what happens to the slots:
`ConnectedSlots` (the new link gets a slot that no link has), `LinkClosedSlots` (the closed link leaves no slot,
the others keep theirs), `Untouched` (everything else).  For the cost of slots, `Paid` charges the ends of links that are gone before their host knows (`Gone`): a slot that is going to die is paid for when the
link is lost, not when `disconnected` clears it.

**`ButtonMesh_proof`**:

* `MeshTypeCorrect`, `TableCorrect`, `HandlesCorrect`: `MeshSpec => []TableTypeOK`, `[]TableMatchesLinks`, `[]FreshHandles`.  `MeshInv` is `TableInv` and
  `FreshHandles`, as the handle a discovery yields goes to the only slot of its link;
* `DeadSlotsCorrect`: `MeshSpec => []DeadSlotsPaid`, from `Paid` and the cardinalities of `Live` and `Gone` step by step.

**`ButtonFlood_proof`**:

* `FloodMeshInvariant`: `Spec => []MeshInv`: events and the main thread leave connection management as it is;
* `FloodTypeCorrect`: `Spec => []TypeOK`, on any network.  `FloodTypeInv` adds what the loop of `send_message_to_all` knows between its steps (`MainOK`);
* `SenderKnownCorrect`: `Spec => []SenderKnown`, on any network.  `KnownInv` says why a board that is written to has the link in its table: a handle is only known when the `connected` callback of the other end has run
  (`PeerConnected`, as the other end answers a discovery after that), the slot of a prepared write keeps its handle because new links are stored behind it (`HandleKept`), and what is on its way is lost with the end it leads
  to (`Flowing`);
* `GenuineCorrect`: on a tree, `Spec => []Genuine`.  `FloodInv` says that messages travel away from the SOURCE only, hence no callback of the SOURCE ever redirects a message, hence
  nothing overwrites the write its main thread has prepared (`~clobbered`);
* `ShowsLatestCorrect`: on a tree, `Spec => ShowsLatestEvents`: the flood implements `LatestEvent`, each step of it being a press, a LED going on to a later event, or a stutter;
* `NoDuplicatesCorrect`: on a tree, `Spec => []NoDuplicateTraffic`.  `OrderInv` puts what a board shows and what is on its way to it in one rising order that ends at what the next board towards the SOURCE shows
  (`Ordered`, `Behind`); a link that comes up starts empty (`Cleared`); and the slots that the send loop has still to visit were not sent the newest event (`Once`), which needs that a
  board has one slot (`TableMatchesLinks`);
* `ForwardsOnceCorrect`: `Spec => []ForwardsOnce`, on any network.  `RisenInv` says that each queue of a TARGET rises up to the last timestamp it accepted (`Risen`): what it forwards is above that timestamp, and
  the one loop that forwards it meets each neighbour in one slot.  In a ring a message may come from anywhere and be anything, so nothing is said of what is forwarded but its order.

**`SensorMesh_proof`**:

* `SensorTableCorrect`, `ReadyCorrect`: `SensorMeshSpec => []TableMatchesLinks`, `[]FreshReady`.  `SensorInv` adds `FreshReady` to `TableInv`, as the flag a discovery sets is that of its own link
  even when the link closes under it;
* `SourcesSearchCorrect`: `SensorMeshSpec => SourcesSearchOn`.  `SearchInv` adds that requests are made to connectable boards only (`Advertised`, so none times out because nobody listens), and that a board whose
  request lost to one from the other side has its next scan scheduled as soon as the discovery on the link that won is over (`SearchDue`).

**`SensorRelay_proof`**, all for `RelaySpec`, which starts with all boards off (`sensor_relay` starts in states that it reaches):

* `RelayTypeCorrect`: `RelaySpec => []RelayTypeOK`, on any network, with the lemmas about `Own`, `Relayed` and `Overwritten`: whatever a preempting relay leaves in `messages[i]` is still a
  measurement of some SOURCE;
* `NoEchoCorrect`: on a network that is a tree seen from every board, `RelaySpec => []NoEcho`.  `EchoInv` says of every queue, and of the write that a main thread has prepared, that it leads away from the board that took the
  measurement (`Away`, `Pending`): a relay does not send to where it received from, and the prepared write of a SOURCE is its own measurement or one that came
  the other way;
* `DamagePaidCorrect`: on a network that is a tree towards the sink (`SinkTree`), `RelaySpec => []DamagePaid`.  `DamageInv` looks at all the places a measurement passes on its way to the terminal: the main thread of
  each board while its loop has not passed the slot towards the sink, every queue that way, and the printed lines.  But for as many places as something failed, they hold measurements that were taken, all different
  (`Accounted`).  A relay moves one from place to place (`Carried`, `Renamed`), measuring adds a new one (`Produced`), and a failure, such as a preempted copy, may spoil one place more (`Charged`).  A link that is lost
  counts as a place until its host clears the slot, as the loop may then send once more over the next one.

**`CoapPair_proof`**, from `CoapAssumption`:

* `CoapTypeCorrect`: `CoapSpec => []CoapTypeOK`;
* `AnswerAgeCorrect`: `CoapSpec => []AnswerAge`.  `CoapInv` adds that datagrams are on their way in the order of their requests
  and that none is older than `late`, less one while the client is not waiting (`InOrder`): sending makes each older by one,
  printing takes the oldest away, and giving up while one is under way adds one to `late`;
* `ReadingAgeCorrect`, `AnsweredInForceCorrect`: `CoapSpec => []ReadingAge`, `[]AnsweredIsInForce`.  `WorthInv` says what each answer is worth: its reading is behind by no more than the answer is old
  (`AllFresh`: the sensor ticks once per GET), and until the next GET only the last POST can have changed the actuator (`LastPost`).

**`TriServer_proof`**, for any number of boards, devices, failures and runs of the server:

* `ImplementsScanner`: `Spec => ScannerSpec`: every step of boards and server together is a step of `ScannerNode` or leaves it alone, so what holds of the firmware holds with any traffic;
* `AlwaysSearching`, `AlwaysPointer`, `AlwaysFreshHandle`: `Spec => []SearchesOn`, `[]PointerTracksLink`, `[]FreshHandle`.  `ScannerInvariant` is the inductive
  invariant `ScannerInv` behind them: the three properties with the types, and that a discovery is outstanding only on a link that is up, the server's end exists only while
  it is serving and the link is, and the handle of a served link is none or that of the present run;
* `PositionsAlwaysAdvance`: `Spec => PositionsAdvance`.  The invariant (`SampleInv`) puts in one order what board `s` has ever produced of device `d`: the samples used for the last position,
  then those in its buffer, then those on their way, all rising and none above `adverts[d]` (`InOrder`).  Advertising appends at the end, `on_write` moves the first sample on its way to the end of the
  buffer, `dequeue` moves the front of the buffer (`HeldAppend`, `HeldSplit`, `SentAppend`, `SentTail`), and losses only take away;
* `SkewAlwaysPaid`: `Spec => []SkewPaid`.  `SkewInv` adds that one number `o` of samples has been used or thrown away of every board's (`AllLined`): the `i`-th sample that a board still
  has, in its buffer or on its way, is of an advertisement from `o + i` to `o + i` plus what was missed of that board.  What is used together comes from the same place `i`, so it differs
  by no more than what was missed.  When a server ends, a new `o` is needed for the boards to line up again (the number of advertisements less what is still on its way), and
  what is lost with it must be counted as missed (`Counted`);
* `ServerTypeCorrect`: `Spec => []TypeOK`, with the bound `Count` on every number and the loop's keys among the known devices even when `on_write` adds one meanwhile (`KeysOK`).

**`TempLog_proof`**, for any number of peripherals, temperatures and failures:

* `TempTypes`, `LogTypes`: `TempSpec => []TempTypeOK`, `Spec => []TypeOK`;
* `PointerAlwaysRight`: `Spec => []PointerTracksLink`, from `PointerRight` and `ImplementsTemp` (`Spec => TempSpec`).  `CentralInv` adds that the one connection object is never used twice:
  at most one end of the central is not down, none while it is creating a connection;
* `OnlyFailureDeafens`: `Spec => DeafOnlyByFailure`, by the same refinement, from an invariant and a step for each callback that ends a link, a connection attempt or a scan;
* `PairingCorrect`: for logs of any length that the two boards can print (`WellLogged`), `Lost` is no more than the SEND lines that no reading came from, and `Matched` is exactly what was delivered when all temperatures differ.
  The pairing is a function defined by recursion over the RECV lines.  That it exists and what it computes (`ScanExists`, `UsedScans`, `NearestIsLast`) is proved by induction over the lines, which uses the least element of a set of
  numbers (`LeastNat`) instead of an induction theorem.  With equal temperatures the lines that are paired need not be the ones that were delivered: `Covers` is an injection from the second into the first,
  extended line by line (`CoversLine`);
* `LossIsRealCorrect`: with one peripheral, as in `pt2.resc` (the script listens to one SEND port), `Spec => []LossIsReal`.  `LogInv` says that in every reachable state the logs are `WellLogged`: outstanding reads
  carry what the peripheral really had when it answered.

**Only model-checked**: the liveness properties (`NobodyAlone`, `ScanRetried`, `LinkSettles`, `SourcesConnect`, `Converges`, `FloodEnds`, `Arrives`, `KeepsSwitching`, `Recovers`, `Located`, `ReadingsGoOn`), as fairness is outside
the prover.  Every invariant and every action property that a run checks is also a theorem; `TableMatchesLinks` is in `ConnTable`, is checked in `mesh_safety` and is proved of both Lab 2 networks.

## 5. Plan

All modules of the plan are there: `BleLink`, `ConnTable`, `ButtonMesh`, `LatestEvent`, `ButtonFlood`, `SensorMesh`, `SensorRelay`, `CoapPair`, `ScannerNode`, `TriServer`, `TempCentral`,
`PortScanner`, `TempLog`, each with proofs.  To come, in this order:

1. An abstract specification of the relay (the measurements taken, and the lines printed for them), implemented by `SensorRelay` on a tree without preemption.
2. The safety half of the liveness properties that are left: what must hold for a step that fairness promises to be enabled, as invariants with proofs (`SourcesSearchOn` is that for `SourcesConnect`, `DeafOnlyByFailure`
   for `ReadingsGoOn`, `SearchesOn` for `Recovers`).

## 6. Not modelled

**Abstractions that a reader should know of.**  When the position server's process ends (`ServerEnds`) its links end with it, and each scanner learns of that later; a stack that keeps links open beyond the process is not modelled, so
nothing is said of a scanner whose link survives the server.  In `ScannerNode` a scan that cannot be stopped leaves the board scanning.  In `SensorRelay` a relay that preempts the main
thread of its board between copy and write is charged to `MaxFaults` like a failure, although it is ordinary scheduling: `DamagePaid` and `Arrives` say what one such event costs, not that it does not
happen.  In `TempLog` a SEND line is printed in the step that measures the temperature, and no two lines have the same time: two lines in the same millisecond, which `PortScanner.py:93` compares strictly, are
not modelled.

Restarts of boards: nothing is kept over one and no code handles it (the restart of the position server, which its scanners must survive, is modelled).  The values of temperature, humidity and RSSI, and what `triangulate`
makes of them; the time between events (delays of work items and
the measured intervals between presses only set when things happen, and everything may happen at any
time here); parsing of advertisements (a neighbour advertises the service, others are not neighbours); a button press
before `bt_ready`; the sockets the Lab 1 script reads its lines from (a line is complete and in order).

The parts marked `not_modelled` in `PROJECT.json`, each with its reason: the Lab 2 log script (statistics of recorded logs), the old copies of the Lab 1 programs (not built), the
Lab 0 samples, broadcaster and observer, sender and receiver (no state that a later step depends on), analysis scripts (floating point geometry), simulation scripts and reports (no code).

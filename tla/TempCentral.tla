---------------------------- MODULE TempCentral ----------------------------
(***************************************************************************)
(* The central of Lab 1 (Lab1/code/pt2/central) and the peripherals it     *)
(* reads temperatures from (Lab1/code/pt2/peripheral): it scans, connects  *)
(* to a thermometer, discovers its characteristic and reads it every five  *)
(* seconds.  One action is one Zephyr callback or work handler, run to its *)
(* end, or one turn of the peripheral's main loop.                         *)
(*                                                                         *)
(* Nothing retries a scan here: start_scan is called once, in the callback *)
(* that needs it, and a refusal is only printed.                           *)
(***************************************************************************)
EXTENDS BleLink, Sequences

CONSTANTS
    Central,    \* the board that reads; all others are peripherals
    Temps,      \* what set_temperature_random may yield
    Initial,    \* current_temperature before the first update
    MaxReads    \* bound: reads outstanding at a time

ASSUME CentralAssumption ==
    /\ Central \in Node
    /\ Initial \notin Temps
    /\ MaxReads \in Nat

\* Neither prj.conf sets CONFIG_BT_MAX_CONN; its default is one connection.
ASSUME OneConnection == BT_MAX_CONN = 1

Peripheral == Node \ {Central}

VARIABLES
    default_conn,      \* the peripheral the pointer leads to, or NoPeer
    temp_char_handle,  \* is the handle known (not 0)
    read_work,         \* perform_read: not scheduled, in its delay, or due
    reads,             \* answers to the outstanding reads, in order
    current            \* current_temperature and its packet_id, per peripheral

centralVars == <<default_conn, temp_char_handle, read_work, reads>>
tempVars == <<linkVars, centralVars, current>>

Value == [id : Nat, temp : Temps \cup {Initial}]
Asked == [id |-> 0, temp |-> NoPeer]   \* a read the peripheral has not answered

TempTypeOK ==
    /\ LinkTypeOK
    /\ default_conn \in Node \cup {NoPeer}
    /\ temp_char_handle \in BOOLEAN
    /\ read_work \in {"idle", "delayed", "due"}
    /\ reads \in Seq(Value \cup {Asked})
    /\ current \in [Peripheral -> Value]

TempInit ==
    /\ LinkInit
    /\ default_conn = NoPeer
    /\ temp_char_handle = FALSE
    /\ read_work = "idle"
    /\ reads = << >>
    /\ current = [p \in Peripheral |-> [id |-> 0, temp |-> Initial]]

\* start_scan at the end of a callback that leaves the controller idle: it is
\* accepted, and otherwise refused for a reason of the controller's.
ScanIfUnlinked ==   \* mutant: only without a connection, tested before it is dropped
    scanning' = [scanning EXCEPT ![Central] = (default_conn = NoPeer)]
ScanOn == scanning' = [scanning EXCEPT ![Central] = TRUE]
ScanRefused == Fault("scan") /\ scanning' = [scanning EXCEPT ![Central] = FALSE]

\* A peripheral in range that can be connected to: its advertising pauses
\* while its only connection object is in use.
Heard(p) ==
    p \in Neighbours[Central] /\ advertising[p] /\ InUse(p) < BT_MAX_CONN

\* k_work_schedule(&read_work, K_NO_WAIT): no effect when it is scheduled.
ReadSoon == read_work' = IF read_work = "idle" THEN "due" ELSE read_work

\* What perform_read does when the stack takes no read: try in five seconds.
ReadDropped == read_work' = "idle"   \* mutant
ReadLater == read_work' = "delayed"

\* read_temperature is given data.
AnyRead == reads # << >>   \* mutant: a callback without data is not told apart
DataRead == reads # << >> /\ Head(reads) # Asked

\* disconnected() drops the pointer.
PointerKept == UNCHANGED default_conn   \* mutant
PointerDropped == default_conn' = NoPeer
-----------------------------------------------------------------------------
\* bt_ready on the central: scan, or report that Bluetooth did not come up.
CentralReady ==
    /\ boot[Central] = "off"
    /\ \/ /\ boot' = [boot EXCEPT ![Central] = "ready"]
          /\ (NoFault /\ ScanOn) \/ ScanRefused
       \/ /\ boot' = [boot EXCEPT ![Central] = "failed"]
          /\ Fault("boot") /\ UNCHANGED scanning
    /\ UNCHANGED <<advertising, initiating, ep, disc, centralVars, current>>

\* bt_ready on a peripheral: advertise, unless something fails.
PeripheralReady(p) ==
    /\ boot[p] = "off"
    /\ \/ /\ boot' = [boot EXCEPT ![p] = "ready"]
          /\ \/ NoFault /\ advertising' = [advertising EXCEPT ![p] = TRUE]
             \/ Fault("boot") /\ UNCHANGED advertising
       \/ /\ boot' = [boot EXCEPT ![p] = "failed"]
          /\ Fault("boot") /\ UNCHANGED advertising
    /\ UNCHANGED <<scanning, initiating, ep, disc, centralVars, current>>

\* device_found with a thermometer: stop scanning and connect to it, or scan
\* again when no connection can be created.
DeviceFound(p) ==
    /\ scanning[Central] /\ Heard(p)
    /\ \/ /\ CanCreate(Central, p) /\ NoFault
          /\ scanning' = [scanning EXCEPT ![Central] = FALSE]
          /\ initiating' = [initiating EXCEPT ![Central] = p]
       \/ /\ CanCreate(Central, p) /\ Fault("create") /\ ScanOn
          /\ UNCHANGED initiating
       \/ /\ ~CanCreate(Central, p)
          /\ (NoFault /\ ScanOn) \/ ScanRefused
          /\ UNCHANGED initiating
    /\ UNCHANGED <<boot, advertising, ep, disc, centralVars, current>>

\* The controllers connect the central to p.
LinkUp(p) == Establish(Central, p) /\ UNCHANGED <<centralVars, current>>

\* connected(conn, err # 0): drop the pointer and scan.
ConnectFailed ==
    /\ initiating[Central] # NoPeer
    /\ \/ /\ Accepts(initiating[Central], Central)
          /\ Fault("connect") /\ ScanOn
       \/ /\ ~Accepts(initiating[Central], Central)
          /\ (NoFault /\ ScanOn) \/ ScanRefused
    /\ initiating' = [initiating EXCEPT ![Central] = NoPeer]
    /\ default_conn' = NoPeer
    /\ UNCHANGED <<boot, advertising, ep, disc, temp_char_handle, read_work,
                   reads, current>>

\* connected(conn, 0): keep the connection and discover; when the discovery
\* does not start, close the connection and scan.
Connected(p) ==
    /\ ep[Central][p] = "pending"
    /\ default_conn' = p
    /\ \/ /\ NoFault
          /\ ep' = [ep EXCEPT ![Central][p] = "up"]
          /\ disc' = [disc EXCEPT ![Central][p] = TRUE]
          /\ UNCHANGED scanning
       \/ /\ Fault("discover") /\ ScanOn
          /\ ep' = [ep EXCEPT ![Central][p] = "closing"]
          /\ UNCHANGED disc
    /\ UNCHANGED <<boot, advertising, initiating, temp_char_handle, read_work,
                   reads, current>>

\* The peripheral's host sees the link come and go; it advertises on after it.
PeripheralLinked(p) ==
    /\ ep[p][Central] = "pending"
    /\ ep' = [ep EXCEPT ![p][Central] = "up"]
    /\ UNCHANGED <<boot, advertising, scanning, initiating, disc, faults,
                   centralVars, current>>
PeripheralUnlinked(p) ==
    Close(p, Central) /\ UNCHANGED <<centralVars, current>>

\* discover_char_cb with the temperature characteristic: keep its handle, have
\* it read, stop the discovery.
Discovered(p) ==
    /\ disc[Central][p] /\ ep[p][Central] = "up"
    /\ temp_char_handle' = TRUE
    /\ ReadSoon
    /\ disc' = [disc EXCEPT ![Central][p] = FALSE]
    /\ UNCHANGED <<boot, advertising, scanning, initiating, ep, faults,
                   default_conn, reads, current>>

\* discover_char_cb without an attribute: the discovery failed.
DiscoverFailed(p) ==
    /\ disc[Central][p] /\ Fault("att")
    /\ disc' = [disc EXCEPT ![Central][p] = FALSE]
    /\ UNCHANGED <<boot, advertising, scanning, initiating, ep, centralVars,
                   current>>

\* disconnected(): reads and discoveries of the link have failed; drop the
\* pointer and scan, which is refused when a scan is running already.
Disconnected(p) ==
    /\ ep[Central][p] \in {"up", "closing"}
    /\ \/ /\ LinkGone(Central, p)
          /\ (NoFault /\ ScanOn) \/ (~scanning[Central] /\ ScanRefused)
       \/ /\ ~LinkGone(Central, p)
          /\ Fault("loss") /\ ScanOn
    /\ ep' = [ep EXCEPT ![Central][p] = "down"]
    /\ disc' = [disc EXCEPT ![Central][p] = FALSE]
    /\ PointerDropped
    /\ reads' = << >>
    /\ UNCHANGED <<boot, advertising, initiating, temp_char_handle, read_work,
                   current>>
-----------------------------------------------------------------------------
\* The delay of perform_read is over.
ReadDue ==
    /\ read_work = "delayed" /\ Len(reads) < MaxReads
    /\ read_work' = "due"
    /\ UNCHANGED <<linkVars, default_conn, temp_char_handle, reads, current>>

\* perform_read: nothing without a connection or a handle; otherwise read, and
\* come back in five seconds whether the stack takes the read or not.
PerformRead ==
    /\ read_work = "due"
    /\ \/ /\ default_conn = NoPeer \/ ~temp_char_handle
          /\ read_work' = "idle" /\ NoFault
          /\ UNCHANGED reads
       \/ /\ default_conn # NoPeer /\ temp_char_handle
          /\ ep[Central][default_conn] = "up" /\ NoFault
          /\ reads' = Append(reads, Asked)
          /\ read_work' = "delayed"
       \/ /\ default_conn # NoPeer /\ temp_char_handle
          /\ \/ ep[Central][default_conn] # "up" /\ NoFault
             \/ ep[Central][default_conn] = "up" /\ Fault("read")
          /\ ReadLater
          /\ UNCHANGED reads
    /\ UNCHANGED <<boot, advertising, scanning, initiating, ep, disc,
                   default_conn, temp_char_handle, current>>

\* read_temperature_callback on the peripheral: the answer leaves with the
\* temperature it has now.
Answer(p) ==
    /\ ep[p][Central] = "up" /\ ep[Central][p] = "up"
    /\ reads # << >> /\ Head(reads) = Asked
    /\ reads' = <<current[p]>> \o Tail(reads)
    /\ UNCHANGED <<linkVars, default_conn, temp_char_handle, read_work, current>>

\* read_temperature on the central: print the answer.
ReadTemperature ==
    /\ DataRead
    /\ reads' = Tail(reads)
    /\ UNCHANGED <<linkVars, default_conn, temp_char_handle, read_work, current>>

\* The same callback with an error: printed, and no more of it.
ReadError ==
    /\ reads # << >> /\ Fault("att")
    /\ reads' = Tail(reads)
    /\ UNCHANGED <<boot, advertising, scanning, initiating, ep, disc,
                   default_conn, temp_char_handle, read_work, current>>

\* A turn of the peripheral's main loop: a new temperature.
Update(p, temp) ==
    /\ current' = [current EXCEPT ![p] = [id |-> @.id + 1, temp |-> temp]]
    /\ UNCHANGED <<linkVars, centralVars>>

LinkStep(p) ==
    \/ PeripheralReady(p) \/ DeviceFound(p) \/ LinkUp(p) \/ Connected(p)
    \/ PeripheralLinked(p) \/ PeripheralUnlinked(p) \/ Discovered(p)
    \/ Disconnected(p) \/ Answer(p)

TempQuiet ==
    \/ CentralReady \/ ConnectFailed \/ ReadDue \/ PerformRead \/ ReadError
    \/ \E p \in Peripheral : LinkStep(p)

TempNext ==
    \/ TempQuiet \/ ReadTemperature
    \/ \E p \in Peripheral : DiscoverFailed(p)
    \/ \E p \in Peripheral, temp \in Temps : Update(p, temp)

TempSpec == TempInit /\ [][TempNext]_tempVars
-----------------------------------------------------------------------------
\* default_conn leads to the link whose connected callback has run, and is null
\* when there is none: disconnected() looks at no argument and always clears
\* the right pointer, and no read goes to a connection that is gone.
PointerTracksLink ==
    \A p \in Peripheral : default_conn = p <=> ep[Central][p] \in {"up", "closing"}

\* Nothing will ever happen on the central again: it does not scan, and no
\* connection exists or is being created.
Deaf ==
    /\ boot[Central] = "ready"
    /\ ~scanning[Central] /\ initiating[Central] = NoPeer
    /\ \A p \in Peripheral : ep[Central][p] = "down"

\* The central only goes deaf in the very step in which something failed (a
\* scan was refused): no order of connecting, failing, closing and losing
\* links does that, although each callback scans once and for itself.
DeafOnlyByFailure == [][Deaf' => Deaf \/ faults' > faults]_tempVars
=============================================================================

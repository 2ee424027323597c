---------------------------- MODULE ScannerNode ----------------------------
(***************************************************************************)
(* The scanner firmware of the project (Project/code/scanner): boards that *)
(* look for the position server, connect to it, discover its               *)
(* characteristic, and scan on for the advertisements of other devices.    *)
(* One action is one Zephyr callback or work handler, run to its end.      *)
(*                                                                         *)
(* CONFIG_BT_MAX_CONN is 1: a board has one connection object, so a        *)
(* connection pointer is that object or null, and creating a connection    *)
(* fails as long as the object is in use.  The server is a process that    *)
(* may stop and be started again; it may then place its characteristic     *)
(* elsewhere, so a handle is named by the run of the server it was         *)
(* discovered in.                                                          *)
(***************************************************************************)
EXTENDS Integers

CONSTANTS
    Scanner,     \* the boards
    Faults,      \* the kinds of failure that may happen in a run
    MaxFaults,   \* bound: how many failures happen in one behaviour
    MaxRuns      \* bound: how many times the server is started

ASSUME ScannerAssumption == MaxFaults \in Nat /\ MaxRuns \in Nat \ {0}

VARIABLES
    boot,                \* has bt_ready run, and how
    scanning,            \* is device_found being called
    scan_work,           \* is the delayable scan work scheduled
    link,                \* state of the board's one connection object
    served,              \* does the server's end of that link exist
    disc,                \* is a discovery outstanding
    default_connection,  \* is the pointer not null
    conn_ready,          \* as in the code
    char_handle,         \* 0, or the server run its handle belongs to
    serving,             \* is the server process running
    run,                 \* number of times the server was started
    faults               \* failures that have happened so far

boardVars == <<boot, scanning, scan_work, link, served, disc,
              default_connection, conn_ready, char_handle>>
serverVars == <<serving, run>>
scannerVars == <<boardVars, serverVars, faults>>

\* "pending": linked, connected() has not run yet; "closing": disconnecting.
LinkState == {"down", "creating", "pending", "up", "closing"}
Run == 1 .. MaxRuns

ScannerTypeOK ==
    /\ boot \in [Scanner -> {"off", "ready", "failed"}]
    /\ scanning \in [Scanner -> BOOLEAN]
    /\ scan_work \in [Scanner -> BOOLEAN]
    /\ link \in [Scanner -> LinkState]
    /\ served \in [Scanner -> BOOLEAN]
    /\ disc \in [Scanner -> BOOLEAN]
    /\ default_connection \in [Scanner -> BOOLEAN]
    /\ conn_ready \in [Scanner -> BOOLEAN]
    /\ char_handle \in [Scanner -> Run \cup {0}]
    /\ serving \in BOOLEAN
    /\ run \in Run
    /\ faults \in 0 .. MaxFaults

ScannerInit ==
    /\ boot = [s \in Scanner |-> "off"]
    /\ scanning = [s \in Scanner |-> FALSE]
    /\ scan_work = [s \in Scanner |-> FALSE]
    /\ link = [s \in Scanner |-> "down"]
    /\ served = [s \in Scanner |-> FALSE]
    /\ disc = [s \in Scanner |-> FALSE]
    /\ default_connection = [s \in Scanner |-> FALSE]
    /\ conn_ready = [s \in Scanner |-> FALSE]
    /\ char_handle = [s \in Scanner |-> 0]
    /\ serving = TRUE
    /\ run = 1
    /\ faults = 0

\* A failure of one kind happens in this step, or none does.
Fault(kind) == kind \in Faults /\ faults < MaxFaults /\ faults' = faults + 1
NoFault == UNCHANGED faults

\* The controller takes a scan: none is running, no connection is being created.
CanScan(s) == ~scanning[s] /\ link[s] # "creating"

\* k_work_schedule(&scan_work, ...).
NotScheduled(s) == UNCHANGED scan_work   \* mutant
Schedule(s) == scan_work' = [scan_work EXCEPT ![s] = TRUE]

\* connected() forgets the handle of an earlier connection.
HandleKept(s) == UNCHANGED char_handle   \* mutant
HandleReset(s) == char_handle' = [char_handle EXCEPT ![s] = 0]
-----------------------------------------------------------------------------
\* Bluetooth is up and a scan scheduled, or Bluetooth did not come up.
BtReady(s) ==
    /\ boot[s] = "off"
    /\ \/ /\ NoFault
          /\ boot' = [boot EXCEPT ![s] = "ready"]
          /\ Schedule(s)
       \/ /\ Fault("boot")
          /\ boot' = [boot EXCEPT ![s] = "failed"]
          /\ UNCHANGED scan_work
    /\ UNCHANGED <<scanning, link, served, disc, default_connection,
                   conn_ready, char_handle, serverVars>>

\* scan_work_handler: start scanning, or try again after a second.
ScanWorkHandler(s) ==
    /\ scan_work[s]
    /\ \/ /\ CanScan(s) /\ NoFault
          /\ scanning' = [scanning EXCEPT ![s] = TRUE]
          /\ scan_work' = [scan_work EXCEPT ![s] = FALSE]
       \/ /\ \/ ~CanScan(s) /\ NoFault
             \/ CanScan(s) /\ Fault("scan")
          /\ Schedule(s)
          /\ UNCHANGED scanning
    /\ UNCHANGED <<boot, link, served, disc, default_connection, conn_ready,
                   char_handle, serverVars>>

\* device_found: the server advertises and the connection is not ready.  Stop
\* scanning, create a connection, schedule the scan whether that worked or not.
\* (When the scan cannot be stopped the callback returns: nothing changes.)
ServerFound(s) ==
    /\ scanning[s] /\ serving /\ ~conn_ready[s]
    /\ scanning' = [scanning EXCEPT ![s] = FALSE]
    /\ \/ /\ link[s] = "down" /\ NoFault
          /\ link' = [link EXCEPT ![s] = "creating"]
          /\ Schedule(s)
       \/ /\ \/ link[s] # "down" /\ NoFault
             \/ link[s] = "down" /\ Fault("create")
          /\ Schedule(s)
          /\ UNCHANGED link
    /\ UNCHANGED <<boot, served, disc, default_connection, conn_ready,
                   char_handle, serverVars>>

\* The connection comes about; connected() has yet to be called.
LinkUp(s) ==
    /\ link[s] = "creating" /\ serving
    /\ link' = [link EXCEPT ![s] = "pending"]
    /\ served' = [served EXCEPT ![s] = TRUE]
    /\ UNCHANGED <<boot, scanning, scan_work, disc, default_connection,
                   conn_ready, char_handle, serverVars, faults>>

\* connected(conn, err # 0): reported, nothing else.
ConnectFailed(s) ==
    /\ link[s] = "creating"
    /\ \/ ~serving /\ NoFault
       \/ serving /\ Fault("connect")
    /\ link' = [link EXCEPT ![s] = "down"]
    /\ UNCHANGED <<boot, scanning, scan_work, served, disc,
                   default_connection, conn_ready, char_handle, serverVars>>

\* connected(conn, 0): keep the connection and start its discovery, or close
\* it when the discovery does not start.
Connected(s) ==
    /\ link[s] = "pending"
    /\ conn_ready' = [conn_ready EXCEPT ![s] = FALSE]
    /\ default_connection' = [default_connection EXCEPT ![s] = TRUE]
    /\ HandleReset(s)
    /\ \/ /\ NoFault
          /\ link' = [link EXCEPT ![s] = "up"]
          /\ disc' = [disc EXCEPT ![s] = TRUE]
       \/ /\ Fault("discover")
          /\ link' = [link EXCEPT ![s] = "closing"]
          /\ UNCHANGED disc
    /\ UNCHANGED <<boot, scanning, scan_work, served, serverVars>>

\* discover_cb with the characteristic: keep its handle, discover on.
DiscoverAttr(s) ==
    /\ disc[s] /\ served[s] /\ char_handle[s] # run
    /\ char_handle' = [char_handle EXCEPT ![s] =
                           IF default_connection[s] THEN run ELSE @]
    /\ UNCHANGED <<boot, scanning, scan_work, link, served, disc,
                   default_connection, conn_ready, serverVars, faults>>

\* discover_cb without an attribute: the discovery is over, or the server
\* answered with an error.  Either way the connection counts as ready.
DiscoverDone(s) ==
    /\ disc[s]
    /\ \/ served[s] /\ char_handle[s] = run /\ NoFault
       \/ Fault("att")
    /\ conn_ready' = [conn_ready EXCEPT ![s] = TRUE]
    /\ disc' = [disc EXCEPT ![s] = FALSE]
    /\ UNCHANGED <<boot, scanning, scan_work, link, served,
                   default_connection, char_handle, serverVars>>

\* disconnected().  A discovery that is cut off has called discover_cb just
\* before; the conn_ready = true of that call is undone here.
ReadyKept(s) ==   \* mutant
    conn_ready' = [conn_ready EXCEPT ![s] = @ \/ disc[s]]
ReadyCleared(s) == conn_ready' = [conn_ready EXCEPT ![s] = FALSE]
Disconnected(s) ==
    /\ link[s] \in {"up", "closing"}
    /\ \/ (link[s] = "closing" \/ ~served[s]) /\ NoFault
       \/ link[s] = "up" /\ served[s] /\ Fault("loss")
    /\ link' = [link EXCEPT ![s] = "down"]
    /\ served' = [served EXCEPT ![s] = FALSE]
    /\ disc' = [disc EXCEPT ![s] = FALSE]
    /\ default_connection' = [default_connection EXCEPT ![s] = FALSE]
    /\ ReadyCleared(s)
    /\ UNCHANGED <<boot, scanning, scan_work, char_handle, serverVars>>

BoardStep(s) ==
    \/ BtReady(s) \/ ScanWorkHandler(s) \/ ServerFound(s)
    \/ LinkUp(s) \/ ConnectFailed(s) \/ Connected(s)
    \/ DiscoverAttr(s) \/ DiscoverDone(s)

\* The server process ends, its links with it; someone starts it again.
ServerEnds ==
    /\ serving
    /\ serving' = FALSE
    /\ served' = [s \in Scanner |-> FALSE]
    /\ UNCHANGED <<boot, scanning, scan_work, link, disc, default_connection,
                   conn_ready, char_handle, run, faults>>
ServerStarts ==
    /\ ~serving /\ run < MaxRuns
    /\ serving' = TRUE
    /\ run' = run + 1
    /\ UNCHANGED <<boardVars, faults>>

ScannerNext ==
    \/ \E s \in Scanner : BoardStep(s) \/ Disconnected(s)
    \/ ServerEnds \/ ServerStarts

ScannerSpec == ScannerInit /\ [][ScannerNext]_scannerVars
-----------------------------------------------------------------------------
\* A board that came up is never deaf, and never scans twice: at every moment
\* either device_found is being called or the work that starts the scan is
\* scheduled, whatever connection attempts, links, discoveries and servers
\* come and go (connected() and disconnected() start no scan of their own).
SearchesOn ==
    \A s \in Scanner : boot[s] = "ready" => scanning[s] = ~scan_work[s]

\* default_connection, conn_ready and the connection object agree: the pointer
\* is set as long as connected() has run and disconnected() has not (so no
\* null pointer is unreferenced and no write goes to one), and the connection
\* is ready only when it is up and its discovery is over.
PointerTracksLink ==
    \A s \in Scanner :
        /\ default_connection[s] <=> link[s] \in {"up", "closing"}
        /\ conn_ready[s] => link[s] = "up" /\ ~disc[s]

\* send_message never writes to a handle of an earlier connection, which may
\* belong to another attribute of a server that was started again.
FreshHandle ==
    \A s \in Scanner :
        conn_ready[s] /\ served[s] => char_handle[s] \in {0, run}

\* The board passes on what it hears.
Streaming(s) ==
    conn_ready[s] /\ served[s] /\ char_handle[s] # 0 /\ scanning[s]

\* The connection counts as ready and has no handle: discover_cb reported a
\* discovery that failed as complete.  The board then neither sends nor
\* looks for a server.
Stuck(s) == conn_ready[s] /\ char_handle[s] = 0

\* Once failures cease, every board of a server that stays ends up streaming,
\* however scanning, connecting, lost links and restarts of the server
\* interleaved before.  Where something failed a board may also be stuck; no
\* order of callbacks gets it there by itself.
Recovers ==
    \A s \in Scanner :
        <>[](\/ Streaming(s)
             \/ Stuck(s) /\ faults > 0
             \/ boot[s] = "failed" \/ ~serving)
=============================================================================

------------------------- MODULE TriServer_proof ---------------------------
(***************************************************************************)
(* Proofs about the scanner firmware (ScannerNode), for any set of boards, *)
(* any number of failures and any number of starts of the server, and      *)
(* about the position server with its boards (TriServer): the boards       *)
(* behave as ScannerNode says, so what is proved of the firmware holds of  *)
(* the whole system.                                                       *)
(***************************************************************************)
EXTENDS TriServer, TLAPS, SequenceTheorems, NaturalsInduction,
        WellFoundedInduction, FiniteSetTheorems

-----------------------------------------------------------------------------
(* The boards. *)

\* Before bt_ready, and when it failed, nothing scans and nothing will; after
\* it, as SearchesOn says.
SearchInv(s) ==
    IF boot[s] = "ready" THEN scanning[s] = ~scan_work[s]
                         ELSE ~scanning[s] /\ ~scan_work[s]

\* PointerTracksLink for one board, and a discovery is one of a link that is up.
PointerInv(s) ==
    /\ default_connection[s] <=> link[s] \in {"up", "closing"}
    /\ conn_ready[s] => link[s] = "up" /\ ~disc[s]
    /\ disc[s] => link[s] = "up"

\* A link has a server's end only while the server runs, and as long as it has,
\* the handle is none or one of this run of the server.
HandleInv(s) ==
    /\ served[s] => serving
    /\ served[s] /\ link[s] = "up" => char_handle[s] \in {0, run}

ScannerInv ==
    /\ ScannerTypeOK
    /\ \A s \in Scanner : SearchInv(s) /\ PointerInv(s) /\ HandleInv(s)

-----------------------------------------------------------------------------
\* Failures are counted up to their bound.
LEMMA FaultType ==
    ASSUME ScannerTypeOK, NEW kind, Fault(kind) \/ NoFault
    PROVE  faults' \in 0 .. MaxFaults
    BY ScannerAssumption, SMT DEF ScannerTypeOK, Fault, NoFault

\* Steps of a board keep the types.
LEMMA TypeStep ==
    ScannerTypeOK /\ [ScannerNext]_scannerVars => ScannerTypeOK'
<1> SUFFICES ASSUME ScannerTypeOK, [ScannerNext]_scannerVars
             PROVE ScannerTypeOK'
    OBVIOUS
<1>0. \/ \E kind : Fault(kind)
      \/ NoFault
      => faults' \in 0 .. MaxFaults
    BY FaultType
<1> USE DEF ScannerTypeOK, serverVars, LinkState, Run
<1>1. ASSUME NEW s \in Scanner, BtReady(s) PROVE ScannerTypeOK'
    <2>1. faults' \in 0 .. MaxFaults
        BY <1>0, <1>1 DEF BtReady
    <2>2. boot' \in [Scanner -> {"off", "ready", "failed"}]
        BY <1>1 DEF BtReady
    <2>3. scan_work' \in [Scanner -> BOOLEAN]
        BY <1>1 DEF BtReady, Schedule
    <2> QED
        BY <1>1, <2>1, <2>2, <2>3 DEF BtReady
<1>2. ASSUME NEW s \in Scanner, ScanWorkHandler(s) PROVE ScannerTypeOK'
    <2>1. faults' \in 0 .. MaxFaults
        BY <1>0, <1>2 DEF ScanWorkHandler
    <2>2. scanning' \in [Scanner -> BOOLEAN] /\ scan_work' \in [Scanner -> BOOLEAN]
        BY <1>2 DEF ScanWorkHandler, Schedule
    <2> QED
        BY <1>2, <2>1, <2>2 DEF ScanWorkHandler
<1>3. ASSUME NEW s \in Scanner, ServerFound(s) PROVE ScannerTypeOK'
    <2>1. faults' \in 0 .. MaxFaults
        BY <1>0, <1>3 DEF ServerFound
    <2>2. scanning' \in [Scanner -> BOOLEAN] /\ scan_work' \in [Scanner -> BOOLEAN]
        BY <1>3 DEF ServerFound, Schedule
    <2>3. link' \in [Scanner -> LinkState]
        BY <1>3 DEF ServerFound
    <2> QED
        BY <1>3, <2>1, <2>2, <2>3 DEF ServerFound
<1>4. ASSUME NEW s \in Scanner, LinkUp(s) PROVE ScannerTypeOK'
    BY <1>4 DEF LinkUp
<1>5. ASSUME NEW s \in Scanner, ConnectFailed(s) PROVE ScannerTypeOK'
    BY <1>0, <1>5 DEF ConnectFailed
<1>6. ASSUME NEW s \in Scanner, Connected(s) PROVE ScannerTypeOK'
    <2>1. faults' \in 0 .. MaxFaults
        BY <1>0, <1>6 DEF Connected
    <2>2. link' \in [Scanner -> LinkState] /\ disc' \in [Scanner -> BOOLEAN]
        BY <1>6 DEF Connected
    <2>3. /\ conn_ready' \in [Scanner -> BOOLEAN]
          /\ default_connection' \in [Scanner -> BOOLEAN]
          /\ char_handle' \in [Scanner -> Run \cup {0}]
        BY <1>6 DEF Connected, HandleReset
    <2> QED
        BY <1>6, <2>1, <2>2, <2>3 DEF Connected
<1>7. ASSUME NEW s \in Scanner, DiscoverAttr(s) PROVE ScannerTypeOK'
    BY <1>7 DEF DiscoverAttr
<1>8. ASSUME NEW s \in Scanner, DiscoverDone(s) PROVE ScannerTypeOK'
    BY <1>0, <1>8 DEF DiscoverDone
<1>9. ASSUME NEW s \in Scanner, Disconnected(s) PROVE ScannerTypeOK'
    BY <1>0, <1>9 DEF Disconnected, ReadyCleared
<1>10. ASSUME ServerEnds PROVE ScannerTypeOK'
    BY <1>10 DEF ServerEnds
<1>11. ASSUME ServerStarts PROVE ScannerTypeOK'
    BY <1>11, ScannerAssumption DEF ServerStarts, boardVars
<1>12. ASSUME UNCHANGED scannerVars PROVE ScannerTypeOK'
    BY <1>12 DEF scannerVars, boardVars
<1> QED
    BY <1>1, <1>2, <1>3, <1>4, <1>5, <1>6, <1>7, <1>8, <1>9, <1>10, <1>11,
       <1>12 DEF ScannerNext, BoardStep

\* A board's scan is running or scheduled, whatever that board does.
LEMMA SearchStep ==
    ASSUME ScannerTypeOK, [ScannerNext]_scannerVars,
           \A s \in Scanner : SearchInv(s)
    PROVE  \A s \in Scanner : SearchInv(s)'
<1> SUFFICES ASSUME NEW r \in Scanner PROVE SearchInv(r)'
    OBVIOUS
<1> USE DEF SearchInv, ScannerTypeOK
<1>1. ASSUME NEW s \in Scanner, BtReady(s) PROVE SearchInv(r)'
    BY <1>1 DEF BtReady, Schedule
<1>2. ASSUME NEW s \in Scanner, ScanWorkHandler(s) PROVE SearchInv(r)'
    BY <1>2 DEF ScanWorkHandler, Schedule
<1>3. ASSUME NEW s \in Scanner, ServerFound(s) PROVE SearchInv(r)'
    BY <1>3 DEF ServerFound, Schedule
<1>4. CASE UNCHANGED <<boot, scanning, scan_work>>
    BY <1>4
<1> QED
    BY <1>1, <1>2, <1>3, <1>4 DEF ScannerNext, BoardStep, scannerVars,
       boardVars, LinkUp, ConnectFailed, Connected, DiscoverAttr,
       DiscoverDone, Disconnected, ServerEnds, ServerStarts

\* The pointer, the ready flag and the discovery follow the connection object.
LEMMA PointerStep ==
    ASSUME ScannerTypeOK, [ScannerNext]_scannerVars,
           \A s \in Scanner : PointerInv(s)
    PROVE  \A s \in Scanner : PointerInv(s)'
<1> SUFFICES ASSUME NEW r \in Scanner PROVE PointerInv(r)'
    OBVIOUS
<1> USE DEF PointerInv, ScannerTypeOK
<1>1. ASSUME NEW s \in Scanner, ServerFound(s) PROVE PointerInv(r)'
    BY <1>1 DEF ServerFound
<1>2. ASSUME NEW s \in Scanner, LinkUp(s) PROVE PointerInv(r)'
    BY <1>2 DEF LinkUp
<1>3. ASSUME NEW s \in Scanner, ConnectFailed(s) PROVE PointerInv(r)'
    BY <1>3 DEF ConnectFailed
<1>4. ASSUME NEW s \in Scanner, Connected(s) PROVE PointerInv(r)'
    BY <1>4 DEF Connected
<1>5. ASSUME NEW s \in Scanner, DiscoverDone(s) PROVE PointerInv(r)'
    BY <1>5 DEF DiscoverDone
<1>6. ASSUME NEW s \in Scanner, Disconnected(s) PROVE PointerInv(r)'
    BY <1>6 DEF Disconnected, ReadyCleared
<1>7. CASE UNCHANGED <<link, disc, default_connection, conn_ready>>
    BY <1>7
<1> QED
    BY <1>1, <1>2, <1>3, <1>4, <1>5, <1>6, <1>7 DEF ScannerNext, BoardStep,
       scannerVars, boardVars, BtReady, ScanWorkHandler, DiscoverAttr,
       ServerEnds, ServerStarts

\* A handle is forgotten before the connection it came from can be mistaken for
\* a later one.
LEMMA HandleStep ==
    ASSUME ScannerTypeOK, [ScannerNext]_scannerVars,
           \A s \in Scanner : PointerInv(s) /\ HandleInv(s)
    PROVE  \A s \in Scanner : HandleInv(s)'
<1> SUFFICES ASSUME NEW r \in Scanner PROVE HandleInv(r)'
    OBVIOUS
<1> USE DEF HandleInv, ScannerTypeOK, serverVars
<1>1. ASSUME NEW s \in Scanner, ServerFound(s) PROVE HandleInv(r)'
    BY <1>1 DEF ServerFound
<1>2. ASSUME NEW s \in Scanner, LinkUp(s) PROVE HandleInv(r)'
    BY <1>2 DEF LinkUp
<1>3. ASSUME NEW s \in Scanner, ConnectFailed(s) PROVE HandleInv(r)'
    BY <1>3 DEF ConnectFailed
<1>4. ASSUME NEW s \in Scanner, Connected(s) PROVE HandleInv(r)'
    BY <1>4 DEF Connected, HandleReset
<1>5. ASSUME NEW s \in Scanner, DiscoverAttr(s) PROVE HandleInv(r)'
    BY <1>5 DEF DiscoverAttr
<1>6. ASSUME NEW s \in Scanner, Disconnected(s) PROVE HandleInv(r)'
    BY <1>6 DEF Disconnected
<1>7. CASE ServerEnds
    BY <1>7 DEF ServerEnds
<1>8. CASE ServerStarts
    BY <1>8 DEF ServerStarts, boardVars
<1>9. CASE UNCHANGED <<link, served, char_handle, serving, run>>
    BY <1>9
<1> QED
    BY <1>1, <1>2, <1>3, <1>4, <1>5, <1>6, <1>7, <1>8, <1>9 DEF ScannerNext,
       BoardStep, scannerVars, boardVars, BtReady, ScanWorkHandler, DiscoverDone

\* The inductive invariant of the firmware.
THEOREM ScannerInvariant == ScannerSpec => []ScannerInv
<1>1. ScannerInit => ScannerInv
    BY ScannerAssumption DEF ScannerInit, ScannerInv, ScannerTypeOK, SearchInv,
       PointerInv, HandleInv, LinkState, Run
<1>2. ScannerInv /\ [ScannerNext]_scannerVars => ScannerInv'
    <2> SUFFICES ASSUME ScannerInv, [ScannerNext]_scannerVars
                 PROVE ScannerInv'
        OBVIOUS
    <2>1. ScannerTypeOK'
        BY TypeStep DEF ScannerInv
    <2>2. \A s \in Scanner : SearchInv(s)'
        BY SearchStep DEF ScannerInv
    <2>3. \A s \in Scanner : PointerInv(s)'
        BY PointerStep DEF ScannerInv
    <2>4. \A s \in Scanner : HandleInv(s)'
        BY HandleStep DEF ScannerInv
    <2> QED
        BY <2>1, <2>2, <2>3, <2>4 DEF ScannerInv
<1> QED
    BY <1>1, <1>2, PTL DEF ScannerSpec

\* What the invariant says of every board.
LEMMA ScannerInvImplies ==
    ScannerInv => SearchesOn /\ PointerTracksLink /\ FreshHandle
<1> SUFFICES ASSUME ScannerInv PROVE SearchesOn /\ PointerTracksLink /\ FreshHandle
    OBVIOUS
<1>1. SearchesOn
    BY DEF ScannerInv, SearchInv, SearchesOn
<1>2. PointerTracksLink
    BY DEF ScannerInv, PointerInv, PointerTracksLink
<1>3. FreshHandle
    BY DEF ScannerInv, PointerInv, HandleInv, FreshHandle
<1> QED
    BY <1>1, <1>2, <1>3

-----------------------------------------------------------------------------
(* The server with its boards. *)

\* Every step of the whole system is a step of the boards and the server
\* process, or leaves them alone: samples never disturb the links.
LEMMA StepIsScannerStep == [Next]_vars => [ScannerNext]_scannerVars
<1> SUFFICES ASSUME [Next]_vars PROVE [ScannerNext]_scannerVars
    OBVIOUS
<1>1. ASSUME NEW d \in Device, Advertise(d) \/ DequeueDevice(d)
      PROVE  UNCHANGED scannerVars
    BY <1>1 DEF Advertise, DequeueDevice
<1>2. ASSUME NEW s \in Scanner, OnWrite(s) PROVE UNCHANGED scannerVars
    BY <1>2 DEF OnWrite
<1>3. ASSUME NEW s \in Scanner, BoardActs(s) \/ LinkLost(s) PROVE ScannerNext
    BY <1>3 DEF BoardActs, LinkLost, ScannerNext
<1>4. ASSUME Dequeue \/ DequeueEnds PROVE UNCHANGED scannerVars
    BY <1>4 DEF Dequeue, DequeueEnds
<1>5. ASSUME Stopped \/ Raised \/ Started PROVE ScannerNext
    BY <1>5 DEF Stopped, Raised, Started, Stops, ScannerNext
<1>6. ASSUME UNCHANGED vars PROVE UNCHANGED scannerVars
    BY <1>6 DEF vars
<1> QED
    BY <1>1, <1>2, <1>3, <1>4, <1>5, <1>6 DEF Next

\* The system implements the firmware's specification.
THEOREM ImplementsScanner == Spec => ScannerSpec
<1>1. Init => ScannerInit
    BY DEF Init
<1> QED
    BY <1>1, StepIsScannerStep, PTL DEF Spec, ScannerSpec

\* A board that came up is never deaf: device_found is being called, or the
\* work that starts the scan is scheduled.
THEOREM AlwaysSearching == Spec => []SearchesOn
    BY ImplementsScanner, ScannerInvariant, ScannerInvImplies, PTL

\* The connection pointer and conn_ready never outlive the connection object,
\* nor are they late for it.
THEOREM AlwaysPointer == Spec => []PointerTracksLink
    BY ImplementsScanner, ScannerInvariant, ScannerInvImplies, PTL

\* A board never writes to a handle it discovered on an earlier run of the
\* server, however often the server is started again.
THEOREM AlwaysFreshHandle == Spec => []FreshHandle
    BY ImplementsScanner, ScannerInvariant, ScannerInvImplies, PTL
-----------------------------------------------------------------------------
(* Positions advance. *)

Heard == [device : Device, advert : Nat]

Before(X, Y) == \A x \in X, y \in Y : x < y

\* What a buffer holds, and the samples of d in a channel.
Held(b) == {b[i] : i \in 1 .. Len(b)}
Sent(c, d) == {c[k].advert : k \in {l \in 1 .. Len(c) : c[l].device = d}}

Rising(b) == \A i, j \in 1 .. Len(b) : i < j => b[i] < b[j]
RisingOf(c, d) ==
    \A k, l \in 1 .. Len(c) :
        k < l /\ c[k].device = d /\ c[l].device = d => c[k].advert < c[l].advert

\* How the samples of device d that one board has measured stand to each other:
\* those behind the last position, in P, are older than those in the buffer b,
\* these older than those still in the channel c, and each of the two is in
\* order; the device has advertised n times.
InOrder(P, b, c, d, n) ==
    /\ \A x \in P \cup Held(b) \cup Sent(c, d) : x <= n
    /\ Before(P, Held(b)) /\ Before(P, Sent(c, d)) /\ Before(Held(b), Sent(c, d))
    /\ Rising(b) /\ RisingOf(c, d)

LEMMA HeldType ==
    ASSUME NEW b \in Seq(Nat) PROVE Held(b) \subseteq Nat
    BY ElementOfSeq DEF Held

LEMMA SentType ==
    ASSUME NEW c \in Seq(Heard), NEW d PROVE Sent(c, d) \subseteq Nat
<1>1. \A k \in 1 .. Len(c) : c[k] \in Heard
    BY ElementOfSeq
<1> QED
    BY <1>1 DEF Sent, Heard

LEMMA HeldAppend ==
    ASSUME NEW b \in Seq(Nat), NEW x \in Nat
    PROVE  /\ Held(Append(b, x)) = Held(b) \cup {x}
           /\ Rising(b) /\ Before(Held(b), {x}) => Rising(Append(b, x))
<1> DEFINE a == Append(b, x)
<1>1. Len(a) = Len(b) + 1 /\ Len(b) \in Nat
    OBVIOUS
<1>2. (\A i \in 1 .. Len(b) : a[i] = b[i]) /\ a[Len(b) + 1] = x
    BY AppendProperties
<1> HIDE DEF a
<1>3. Held(a) = Held(b) \cup {x}
    <2>1. 1 .. Len(a) = (1 .. Len(b)) \cup {Len(b) + 1}
        BY <1>1
    <2> QED
        BY <1>2, <2>1 DEF Held
<1>4. ASSUME Rising(b), Before(Held(b), {x}) PROVE Rising(a)
    <2> SUFFICES ASSUME NEW i \in 1 .. Len(a), NEW j \in 1 .. Len(a), i < j
                 PROVE  a[i] < a[j]
        BY DEF Rising
    <2>1. i \in 1 .. Len(b) /\ a[i] = b[i]
        BY <1>1, <1>2
    <2>2. CASE j = Len(b) + 1
        BY <1>2, <1>4, <2>1, <2>2 DEF Before, Held
    <2>3. CASE j \in 1 .. Len(b)
        BY <1>2, <1>4, <2>1, <2>3 DEF Rising
    <2> QED
        BY <1>1, <2>2, <2>3
<1> QED
    BY <1>3, <1>4 DEF a

\* A buffer in order, cut after its k-th sample.
LEMMA HeldSplit ==
    ASSUME NEW b \in Seq(Nat), NEW k \in Nat, k <= Len(b), Rising(b)
    PROVE  LET used == {b[i] : i \in 1 .. k}
               rest == SubSeq(b, k + 1, Len(b))
           IN /\ used \subseteq Held(b) /\ Held(rest) \subseteq Held(b)
              /\ Before(used, Held(rest)) /\ Rising(rest)
<1> DEFINE used == {b[i] : i \in 1 .. k}
           rest == SubSeq(b, k + 1, Len(b))
<1>1. \A i \in 1 .. Len(b) : b[i] \in Nat
    BY ElementOfSeq
<1>2. Len(rest) = Len(b) - k /\ Len(b) \in Nat
    BY <1>1, SubSeqProperties
<1>3. \A i \in 1 .. Len(rest) : rest[i] = b[k + i]
    BY <1>1, <1>2, SubSeqProperties
<1> HIDE DEF rest
<1>4. used \subseteq Held(b)
    BY <1>2 DEF Held
<1>5. \A i \in 1 .. Len(rest) : k + i \in 1 .. Len(b)
    BY <1>2
<1>6. Held(rest) \subseteq Held(b)
    BY <1>3, <1>5 DEF Held
<1>7. Before(used, Held(rest))
    <2> SUFFICES ASSUME NEW i \in 1 .. k, NEW j \in 1 .. Len(rest)
                 PROVE  b[i] < rest[j]
        BY DEF Before, Held
    <2>1. i \in 1 .. Len(b) /\ k + j \in 1 .. Len(b) /\ i < k + j
        BY <1>2, <1>5
    <2> QED
        BY <1>3, <2>1 DEF Rising
<1>8. Rising(rest)
    <2> SUFFICES ASSUME NEW i \in 1 .. Len(rest), NEW j \in 1 .. Len(rest), i < j
                 PROVE  rest[i] < rest[j]
        BY DEF Rising
    <2>1. k + i \in 1 .. Len(b) /\ k + j \in 1 .. Len(b) /\ k + i < k + j
        BY <1>5
    <2> QED
        BY <1>3, <2>1 DEF Rising
<1> QED
    BY <1>4, <1>6, <1>7, <1>8 DEF rest

LEMMA SentAppend ==
    ASSUME NEW c \in Seq(Heard), NEW m \in Heard, NEW d
    PROVE  /\ Sent(Append(c, m), d)
                  = Sent(c, d) \cup (IF m.device = d THEN {m.advert} ELSE {})
           /\ RisingOf(c, d) /\ (m.device = d => Before(Sent(c, d), {m.advert}))
                  => RisingOf(Append(c, m), d)
<1> DEFINE a == Append(c, m)
<1>1. Len(a) = Len(c) + 1 /\ Len(c) \in Nat
    OBVIOUS
<1>2. (\A i \in 1 .. Len(c) : a[i] = c[i]) /\ a[Len(c) + 1] = m
    BY AppendProperties
<1> HIDE DEF a
<1>3. Sent(a, d) = Sent(c, d) \cup (IF m.device = d THEN {m.advert} ELSE {})
    <2>1. 1 .. Len(a) = (1 .. Len(c)) \cup {Len(c) + 1}
        BY <1>1
    <2> QED
        BY <1>2, <2>1 DEF Sent
<1>4. ASSUME RisingOf(c, d), m.device = d => Before(Sent(c, d), {m.advert})
      PROVE  RisingOf(a, d)
    <2> SUFFICES ASSUME NEW k \in 1 .. Len(a), NEW l \in 1 .. Len(a), k < l,
                        a[k].device = d, a[l].device = d
                 PROVE  a[k].advert < a[l].advert
        BY DEF RisingOf
    <2>1. k \in 1 .. Len(c) /\ a[k] = c[k]
        BY <1>1, <1>2
    <2>2. CASE l = Len(c) + 1
        BY <1>2, <1>4, <2>1, <2>2 DEF Before, Sent
    <2>3. CASE l \in 1 .. Len(c)
        BY <1>2, <1>4, <2>1, <2>3 DEF RisingOf
    <2> QED
        BY <1>1, <2>2, <2>3
<1> QED
    BY <1>3, <1>4 DEF a

LEMMA SentTail ==
    ASSUME NEW c \in Seq(Heard), c # << >>, NEW d, RisingOf(c, d)
    PROVE  /\ Sent(Tail(c), d) \subseteq Sent(c, d)
           /\ Head(c).device = d =>
                  /\ Head(c).advert \in Sent(c, d)
                  /\ Before({Head(c).advert}, Sent(Tail(c), d))
           /\ RisingOf(Tail(c), d)
<1> DEFINE r == Tail(c)
<1>1. Len(c) \in Nat \ {0} /\ Len(r) = Len(c) - 1
    BY EmptySeq, HeadTailProperties
<1>2. \A i \in 1 .. Len(r) : r[i] = c[i + 1]
    BY HeadTailProperties
<1>3. Head(c) = c[1]
    OBVIOUS
<1> HIDE DEF r
<1>4. \A i \in 1 .. Len(r) : i + 1 \in 1 .. Len(c) /\ 1 < i + 1
    BY <1>1
<1>5. 1 \in 1 .. Len(c)
    BY <1>1
<1>6. Sent(r, d) \subseteq Sent(c, d)
    BY <1>2, <1>4 DEF Sent
<1>7. ASSUME Head(c).device = d
      PROVE  Head(c).advert \in Sent(c, d) /\ Before({Head(c).advert}, Sent(r, d))
    <2>1. Head(c).advert \in Sent(c, d)
        BY <1>3, <1>5, <1>7 DEF Sent
    <2>2. \A k \in 1 .. Len(r) : r[k].device = d => c[1].advert < r[k].advert
        BY <1>2, <1>3, <1>4, <1>5, <1>7 DEF RisingOf
    <2> QED
        BY <1>3, <2>1, <2>2 DEF Before, Sent
<1>8. RisingOf(r, d)
    <2> SUFFICES ASSUME NEW k \in 1 .. Len(r), NEW l \in 1 .. Len(r), k < l,
                        r[k].device = d, r[l].device = d
                 PROVE  r[k].advert < r[l].advert
        BY DEF RisingOf
    <2>1. k + 1 \in 1 .. Len(c) /\ l + 1 \in 1 .. Len(c) /\ k + 1 < l + 1
        BY <1>4
    <2> QED
        BY <1>2, <2>1 DEF RisingOf
<1> QED
    BY <1>6, <1>7, <1>8 DEF r

\* The device advertises once more, whether the board hears it or not.
LEMMA OrderGrows ==
    ASSUME NEW P \in SUBSET Nat, NEW b \in Seq(Nat), NEW c \in Seq(Heard),
           NEW d, NEW n \in Nat, InOrder(P, b, c, d, n)
    PROVE  InOrder(P, b, c, d, n + 1)
<1>1. \A x \in P \cup Held(b) \cup Sent(c, d) : x \in Nat /\ x <= n
    BY HeldType, SentType DEF InOrder
<1>2. \A x \in P \cup Held(b) \cup Sent(c, d) : x <= n + 1
    BY <1>1
<1> QED
    BY <1>2 DEF InOrder

\* A sample joins the channel: one of d is of its last advertisement.
LEMMA OrderHeard ==
    ASSUME NEW P \in SUBSET Nat, NEW b \in Seq(Nat), NEW c \in Seq(Heard),
           NEW d, NEW n \in Nat, InOrder(P, b, c, d, n),
           NEW m \in Heard, NEW k \in Nat,
           IF m.device = d THEN m.advert = n + 1 /\ k = n + 1 ELSE k = n
    PROVE  InOrder(P, b, Append(c, m), d, k)
<1>1. \A x \in P \cup Held(b) \cup Sent(c, d) : x \in Nat /\ x <= n
    BY HeldType, SentType DEF InOrder
<1>2. CASE m.device = d
    <2>1. \A x \in P \cup Held(b) \cup Sent(c, d) : x < m.advert /\ x <= k
        BY <1>1, <1>2
    <2>2. Sent(Append(c, m), d) = Sent(c, d) \cup {m.advert}
        BY <1>2, SentAppend
    <2>3. RisingOf(Append(c, m), d)
        <3>1. RisingOf(c, d) /\ Before(Sent(c, d), {m.advert})
            BY <2>1 DEF InOrder, Before
        <3> QED
            BY <3>1, SentAppend, Zenon
    <2>4. m.advert <= k
        BY <1>2
    <2> QED
        BY <2>1, <2>2, <2>3, <2>4 DEF InOrder, Before
<1>3. CASE m.device # d
    <2>1. Sent(Append(c, m), d) = Sent(c, d)
        <3>1. Sent(Append(c, m), d) = Sent(c, d) \cup {}
            BY <1>3, SentAppend
        <3> QED
            BY <3>1
    <2>2. RisingOf(Append(c, m), d)
        <3>1. RisingOf(c, d)
            BY DEF InOrder
        <3> QED
            BY <1>3, <3>1, SentAppend, Zenon
    <2> QED
        BY <1>3, <2>1, <2>2 DEF InOrder
<1> QED
    BY <1>2, <1>3

\* on_write takes the first sample from the channel; one of d goes to the buffer.
LEMMA OrderTaken ==
    ASSUME NEW P \in SUBSET Nat, NEW b \in Seq(Nat), NEW c \in Seq(Heard),
           NEW d, NEW n \in Nat, InOrder(P, b, c, d, n), c # << >>
    PROVE  InOrder(P, IF Head(c).device = d THEN Append(b, Head(c).advert) ELSE b,
                   Tail(c), d, n)
<1>1. /\ Sent(Tail(c), d) \subseteq Sent(c, d)
      /\ RisingOf(Tail(c), d)
    BY SentTail DEF InOrder
<1>2. CASE Head(c).device = d
    <2>1. /\ Head(c).advert \in Sent(c, d)
          /\ Before({Head(c).advert}, Sent(Tail(c), d))
        BY <1>2, SentTail DEF InOrder
    <2>2. Head(c).advert \in Nat
        BY <2>1, SentType
    <2>3. /\ Before(Held(b), {Head(c).advert}) /\ Before(P, {Head(c).advert})
          /\ Head(c).advert <= n
        BY <2>1 DEF InOrder, Before
    <2>4. Rising(b)
        BY DEF InOrder
    <2>5. /\ Held(Append(b, Head(c).advert)) = Held(b) \cup {Head(c).advert}
          /\ Rising(Append(b, Head(c).advert))
        BY <2>2, <2>3, <2>4, HeldAppend, Zenon
    <2>6. InOrder(P, Append(b, Head(c).advert), Tail(c), d, n)
        BY <1>1, <2>1, <2>3, <2>5 DEF InOrder, Before
    <2> QED
        BY <1>2, <2>6
<1>3. CASE Head(c).device # d
    BY <1>1, <1>3 DEF InOrder, Before
<1> QED
    BY <1>2, <1>3

\* dequeue takes the k oldest samples from the buffer.
LEMMA OrderUsed ==
    ASSUME NEW P \in SUBSET Nat, NEW b \in Seq(Nat), NEW c \in Seq(Heard),
           NEW d, NEW n \in Nat, InOrder(P, b, c, d, n),
           NEW k \in Nat, k <= Len(b)
    PROVE  /\ Before(P, {b[i] : i \in 1 .. k})
           /\ InOrder({b[i] : i \in 1 .. k}, SubSeq(b, k + 1, Len(b)), c, d, n)
<1> DEFINE used == {b[i] : i \in 1 .. k}
           rest == SubSeq(b, k + 1, Len(b))
<1>1. /\ used \subseteq Held(b) /\ Held(rest) \subseteq Held(b)
      /\ Before(used, Held(rest)) /\ Rising(rest)
    BY HeldSplit DEF InOrder
<1> HIDE DEF used, rest
<1>2. Before(P, used) /\ InOrder(used, rest, c, d, n)
    BY <1>1 DEF InOrder, Before
<1> QED
    BY <1>2 DEF used, rest

\* A link is lost with what is in the channel.
LEMMA OrderLost ==
    ASSUME NEW P, NEW b, NEW c, NEW d, NEW n, InOrder(P, b, c, d, n)
    PROVE  InOrder(P, b, << >>, d, n)
<1>1. Sent(<< >>, d) = {} /\ RisingOf(<< >>, d)
    BY DEF Sent, RisingOf
<1> QED
    BY <1>1 DEF InOrder, Before

\* At first, and when the server has ended, there is nothing.
LEMMA OrderEmpty ==
    ASSUME NEW d, NEW n PROVE InOrder({}, << >>, << >>, d, n)
<1>1. Sent(<< >>, d) = {} /\ RisingOf(<< >>, d)
    BY DEF Sent, RisingOf
<1>2. Held(<< >>) = {} /\ Rising(<< >>)
    BY DEF Held, Rising
<1> QED
    BY <1>1, <1>2 DEF InOrder, Before

\* The loop of dequeue takes no more samples from any board than it has.
LEMMA RoundsFit ==
    ASSUME NEW b \in [Scanner -> Seq(Nat)], NEW s \in Scanner
    PROVE  Rounds(b) \in Nat /\ \A r \in Scanner : Rounds(b) <= Len(b[r])
<1> DEFINE lengths == {Len(b[r]) : r \in Scanner}
           R == {ss \in Nat \X Nat : ss[1] < ss[2]}
<1>1. \A r \in Scanner : Len(b[r]) \in Nat
    OBVIOUS
<1>2. lengths \subseteq Nat /\ lengths # {}
    BY <1>1
<1>3. \E k \in lengths : \A l \in lengths : k <= l
    <2>0. IsWellFoundedOn(R, Nat)
        BY NatLessThanWellFounded DEF OpToRel
    <2> HIDE DEF lengths, R
    <2>1. PICK k \in lengths : \A l \in lengths : ~ (<<l, k>> \in R)
        BY <1>2, <2>0, WFMin
    <2>2. \A l \in lengths : ~ (l < k)
        BY <1>2, <2>1 DEF R
    <2> QED
        BY <1>2, <2>2
<1>4. Rounds(b) \in lengths /\ \A l \in lengths : Rounds(b) <= l
    BY <1>3 DEF Rounds, Shortest
<1> QED
    BY <1>2, <1>4

-----------------------------------------------------------------------------
(* The samples of every device and board stay in order. *)

SampleTypeOK ==
    /\ adverts \in [Device -> Nat]
    /\ chan \in [Scanner -> Seq(Heard)]
    /\ buffers \in [Device -> [Scanner -> Seq(Nat)]]
    /\ positions \in [Device -> SUBSET [Scanner -> Nat]]

\* The samples of board s behind the last position of d.
Used(d, s) == {t[s] : t \in positions[d]}

SamplesInOrder ==
    \A d \in Device, s \in Scanner :
        InOrder(Used(d, s), buffers[d][s], chan[s], d, adverts[d])

SampleInv == SampleTypeOK /\ SamplesInOrder

LEMMA UsedType ==
    ASSUME SampleTypeOK, NEW d \in Device, NEW s \in Scanner
    PROVE  Used(d, s) \in SUBSET Nat
    BY DEF SampleTypeOK, Used

LEMMA AdvertiseStep ==
    ASSUME SampleInv, NEW d \in Device, Advertise(d)
    PROVE  SampleInv'
<1> DEFINE m == [device |-> d, advert |-> adverts'[d]]
<1>1. /\ adverts' \in [Device -> Nat] /\ adverts'[d] = adverts[d] + 1
      /\ \A e \in Device : e # d => adverts'[e] = adverts[e]
    BY DEF Advertise, SampleInv, SampleTypeOK
<1>2. m \in Heard
    BY <1>1 DEF Heard
<1>3. PICK hear \in SUBSET Scanner :
          chan' = [s \in Scanner |->
                      IF s \in hear THEN Append(chan[s], m) ELSE chan[s]]
    BY DEF Advertise
<1>4. UNCHANGED <<buffers, positions>>
    BY DEF Advertise, serverState
<1> HIDE DEF m
<1>5. \A s \in Scanner : chan[s] \in Seq(Heard) /\ Append(chan[s], m) \in Seq(Heard)
    BY <1>2 DEF SampleInv, SampleTypeOK
<1>6. SampleTypeOK'
    BY <1>1, <1>3, <1>4, <1>5 DEF SampleInv, SampleTypeOK
<1>7. ASSUME NEW e \in Device, NEW s \in Scanner
      PROVE  InOrder(Used(e, s)', buffers'[e][s], chan'[s], e, adverts'[e])
    <2>1. Used(e, s)' = Used(e, s) /\ buffers'[e][s] = buffers[e][s]
        BY <1>4 DEF Used
    <2>2. /\ InOrder(Used(e, s), buffers[e][s], chan[s], e, adverts[e])
          /\ Used(e, s) \in SUBSET Nat /\ adverts[e] \in Nat
          /\ buffers[e][s] \in Seq(Nat) /\ chan[s] \in Seq(Heard)
        BY UsedType DEF SampleInv, SampleTypeOK, SamplesInOrder
    <2>3. CASE s \in hear
        <3>1. chan'[s] = Append(chan[s], m)
            BY <1>3, <2>3
        <3>2. IF m.device = e THEN m.advert = adverts[e] + 1 /\ adverts'[e] = adverts[e] + 1
                              ELSE adverts'[e] = adverts[e]
            BY <1>1 DEF m
        <3>3. adverts'[e] \in Nat
            BY <1>1
        <3>4. InOrder(Used(e, s), buffers[e][s], Append(chan[s], m), e, adverts'[e])
            BY <1>2, <2>2, <3>2, <3>3, OrderHeard
        <3> QED
            BY <2>1, <3>1, <3>4
    <2>4. CASE s \notin hear
        <3>1. chan'[s] = chan[s]
            BY <1>3, <2>4
        <3>2. InOrder(Used(e, s), buffers[e][s], chan[s], e, adverts[e] + 1)
            BY <2>2, OrderGrows
        <3>3. adverts'[e] = adverts[e] \/ adverts'[e] = adverts[e] + 1
            BY <1>1
        <3> QED
            BY <2>1, <2>2, <3>1, <3>2, <3>3
    <2> QED
        BY <2>3, <2>4
<1> QED
    BY <1>6, <1>7 DEF SampleInv, SamplesInOrder

LEMMA OnWriteStep ==
    ASSUME SampleInv, NEW s \in Scanner, OnWrite(s)
    PROVE  SampleInv'
<1> DEFINE m == Head(chan[s])
<1>1. chan[s] # << >> /\ chan[s] \in Seq(Heard)
    BY DEF OnWrite, SampleInv, SampleTypeOK
<1>2. m \in Heard /\ Tail(chan[s]) \in Seq(Heard)
    BY <1>1, HeadTailProperties
<1>3. m.device \in Device /\ m.advert \in Nat
    BY <1>2 DEF Heard
<1>4. /\ chan' = [chan EXCEPT ![s] = Tail(@)]
      /\ buffers' = [buffers EXCEPT ![m.device][s] = Append(@, m.advert)]
      /\ UNCHANGED <<adverts, positions>>
    BY DEF OnWrite
<1> HIDE DEF m
<1>5. Append(buffers[m.device][s], m.advert) \in Seq(Nat)
    BY <1>3 DEF SampleInv, SampleTypeOK
<1>6. chan' \in [Scanner -> Seq(Heard)]
    BY <1>2, <1>4 DEF SampleInv, SampleTypeOK
<1>7. buffers' \in [Device -> [Scanner -> Seq(Nat)]]
    BY <1>3, <1>4, <1>5 DEF SampleInv, SampleTypeOK
<1>8. SampleTypeOK'
    BY <1>4, <1>6, <1>7 DEF SampleInv, SampleTypeOK
<1>9. ASSUME NEW e \in Device, NEW r \in Scanner
      PROVE  InOrder(Used(e, r)', buffers'[e][r], chan'[r], e, adverts'[e])
    <2>1. Used(e, r)' = Used(e, r) /\ adverts'[e] = adverts[e]
        BY <1>4 DEF Used
    <2>2. /\ InOrder(Used(e, r), buffers[e][r], chan[r], e, adverts[e])
          /\ Used(e, r) \in SUBSET Nat /\ adverts[e] \in Nat
          /\ buffers[e][r] \in Seq(Nat) /\ chan[r] \in Seq(Heard)
        BY UsedType DEF SampleInv, SampleTypeOK, SamplesInOrder
    <2>3. CASE r = s
        <3>1. chan'[r] = Tail(chan[r])
            BY <1>4, <2>3 DEF SampleInv, SampleTypeOK
        <3>2. buffers'[e][r] = IF m.device = e THEN Append(buffers[e][r], m.advert)
                                               ELSE buffers[e][r]
            BY <1>3, <1>4, <2>3 DEF SampleInv, SampleTypeOK
        <3>3. InOrder(Used(e, r), IF Head(chan[r]).device = e
                                  THEN Append(buffers[e][r], Head(chan[r]).advert)
                                  ELSE buffers[e][r],
                      Tail(chan[r]), e, adverts[e])
            BY <1>1, <2>2, <2>3, OrderTaken
        <3> QED
            BY <2>1, <2>3, <3>1, <3>2, <3>3 DEF m
    <2>4. CASE r # s
        <3>1. chan'[r] = chan[r] /\ buffers'[e][r] = buffers[e][r]
            BY <1>3, <1>4, <2>4 DEF SampleInv, SampleTypeOK
        <3> QED
            BY <2>1, <2>2, <3>1
    <2> QED
        BY <2>3, <2>4
<1> QED
    BY <1>8, <1>9 DEF SampleInv, SamplesInOrder

\* What a turn of the loop does when it takes samples.
LEMMA DequeueStep ==
    ASSUME SampleInv, NEW d \in Device, DequeueDevice(d)
    PROVE  /\ SampleInv'
           /\ \A e \in Device : positions'[e] # positions[e] =>
                  \A s \in Scanner : Before(Used(e, s), Used(e, s)')
<1> DEFINE b == buffers[d]
           k == Rounds(buffers[d])
<1>1. UNCHANGED <<adverts, chan>>
    BY DEF DequeueDevice
<1>2. b \in [Scanner -> Seq(Nat)]
    BY DEF SampleInv, SampleTypeOK
<1>3. CASE k > 0
    <2>1. /\ positions' = [positions EXCEPT ![d] = Tuples(b)]
          /\ buffers' = [buffers EXCEPT ![d] = Rest(b)]
        BY <1>3 DEF DequeueDevice
    <2>2. \A s \in Scanner : k \in Nat /\ k <= Len(b[s])
        BY <1>2, RoundsFit
    <2>3. \A s \in Scanner : {t[s] : t \in Tuples(b)} = {b[s][i] : i \in 1 .. k}
        <3> SUFFICES ASSUME NEW s \in Scanner
                     PROVE  {t[s] : t \in Tuples(b)} = {b[s][i] : i \in 1 .. k}
            OBVIOUS
        <3>1. \A t \in Tuples(b) : \E i \in 1 .. k : t[s] = b[s][i]
            BY DEF Tuples, Oldest
        <3>2. \A i \in 1 .. k : \E t \in Tuples(b) : t[s] = b[s][i]
            <4> SUFFICES ASSUME NEW i \in 1 .. k
                         PROVE  \E t \in Tuples(b) : t[s] = b[s][i]
                OBVIOUS
            <4>1. Oldest(b, i) \in Tuples(b)
                BY DEF Tuples
            <4>2. Oldest(b, i)[s] = b[s][i]
                BY DEF Oldest
            <4> QED
                BY <4>1, <4>2
        <3> HIDE DEF b, k
        <3> QED
            BY <3>1, <3>2
    <2>4. /\ DOMAIN Rest(b) = Scanner
          /\ \A s \in Scanner : Rest(b)[s] = SubSeq(b[s], k + 1, Len(b[s]))
        BY DEF Rest
    <2>5. \A s \in Scanner : \A i \in 1 .. Len(b[s]) : b[s][i] \in Nat
        BY <1>2, ElementOfSeq
    <2> HIDE DEF b, k
    <2>6. Tuples(b) \in SUBSET [Scanner -> Nat]
        <3>1. \A i \in 1 .. k : [s \in Scanner |-> b[s][i]] \in [Scanner -> Nat]
            BY <2>2, <2>5, <1>2
        <3> QED
            BY <3>1 DEF Tuples, Oldest, k, b
    <2>7. Rest(b) \in [Scanner -> Seq(Nat)]
        <3>1. \A s \in Scanner : SubSeq(b[s], k + 1, Len(b[s])) \in Seq(Nat)
            <4> SUFFICES ASSUME NEW s \in Scanner
                         PROVE  SubSeq(b[s], k + 1, Len(b[s])) \in Seq(Nat)
                OBVIOUS
            <4>1. k + 1 \in Int /\ Len(b[s]) \in Int
                BY <1>2, <2>2
            <4>2. \A i \in k + 1 .. Len(b[s]) : b[s][i] \in Nat
                BY <1>2, <2>2, <2>5
            <4> QED
                BY <4>1, <4>2, SubSeqProperties
        <3> QED
            BY <3>1 DEF Rest, k, b
    <2>8. SampleTypeOK'
        BY <1>1, <2>1, <2>6, <2>7 DEF SampleInv, SampleTypeOK
    <2>9. ASSUME NEW s \in Scanner
          PROVE  /\ Before(Used(d, s), Used(d, s)')
                 /\ InOrder(Used(d, s)', buffers'[d][s], chan'[s], d, adverts'[d])
        <3>1. /\ InOrder(Used(d, s), b[s], chan[s], d, adverts[d])
              /\ Used(d, s) \in SUBSET Nat /\ adverts[d] \in Nat
              /\ b[s] \in Seq(Nat) /\ chan[s] \in Seq(Heard)
            BY UsedType DEF SampleInv, SampleTypeOK, SamplesInOrder, b
        <3>2. /\ Before(Used(d, s), {b[s][i] : i \in 1 .. k})
              /\ InOrder({b[s][i] : i \in 1 .. k}, SubSeq(b[s], k + 1, Len(b[s])),
                         chan[s], d, adverts[d])
            BY <2>2, <3>1, OrderUsed
        <3>3. positions'[d] = Tuples(b) /\ buffers'[d] = Rest(b)
            BY <2>1 DEF SampleInv, SampleTypeOK
        <3>4. Used(d, s)' = {b[s][i] : i \in 1 .. k}
            BY <2>3, <3>3 DEF Used
        <3>5. buffers'[d][s] = SubSeq(b[s], k + 1, Len(b[s]))
            BY <2>4, <3>3
        <3> QED
            BY <1>1, <3>2, <3>4, <3>5
    <2>10. ASSUME NEW e \in Device, e # d
           PROVE  positions'[e] = positions[e] /\ buffers'[e] = buffers[e]
        BY <2>1, <2>10 DEF SampleInv, SampleTypeOK
    <2>11. ASSUME NEW e \in Device, NEW s \in Scanner, e # d
           PROVE  InOrder(Used(e, s)', buffers'[e][s], chan'[s], e, adverts'[e])
        <3>1. Used(e, s)' = Used(e, s)
            BY <2>10, <2>11 DEF Used
        <3> QED
            BY <1>1, <2>10, <2>11, <3>1 DEF SampleInv, SamplesInOrder
    <2>12. SamplesInOrder'
        BY <2>9, <2>11 DEF SamplesInOrder
    <2> QED
        BY <2>8, <2>9, <2>10, <2>12 DEF SampleInv
<1>4. CASE ~(k > 0)
    <2>1. UNCHANGED <<positions, buffers>>
        BY <1>4 DEF DequeueDevice
    <2> QED
        BY <1>1, <2>1 DEF SampleInv, SampleTypeOK, SamplesInOrder, Used
<1> QED
    BY <1>3, <1>4

\* The end of the process empties everything; the end of a link, its channel.
LEMMA StopsStep ==
    ASSUME SampleInv, Stops
    PROVE  SampleInv' /\ \A e \in Device : positions'[e] = {}
<1>1. /\ chan' = [s \in Scanner |-> << >>]
      /\ buffers' = [d \in Device |-> [s \in Scanner |-> << >>]]
      /\ positions' = [d \in Device |-> {}]
      /\ UNCHANGED adverts
    BY DEF Stops, NoBuffers
<1>2. SampleTypeOK'
    BY <1>1 DEF SampleInv, SampleTypeOK
<1>3. ASSUME NEW d \in Device, NEW s \in Scanner
      PROVE  InOrder(Used(d, s)', buffers'[d][s], chan'[s], d, adverts'[d])
    <2>1. Used(d, s)' = {} /\ buffers'[d][s] = << >> /\ chan'[s] = << >>
        BY <1>1 DEF Used
    <2> QED
        BY <2>1, OrderEmpty
<1> QED
    BY <1>1, <1>2, <1>3 DEF SampleInv, SamplesInOrder

LEMMA LinkLostStep ==
    ASSUME SampleInv, NEW s \in Scanner, LinkLost(s)
    PROVE  SampleInv'
<1>1. /\ chan' = [chan EXCEPT ![s] = << >>]
      /\ UNCHANGED <<adverts, buffers, positions>>
    BY DEF LinkLost, LosesSamples, serverState
<1>2. SampleTypeOK'
    BY <1>1 DEF SampleInv, SampleTypeOK
<1>3. ASSUME NEW e \in Device, NEW r \in Scanner
      PROVE  InOrder(Used(e, r)', buffers'[e][r], chan'[r], e, adverts'[e])
    <2>1. InOrder(Used(e, r), buffers[e][r], chan[r], e, adverts[e])
        BY DEF SampleInv, SamplesInOrder
    <2>2. chan'[r] = chan[r] \/ chan'[r] = << >>
        BY <1>1 DEF SampleInv, SampleTypeOK
    <2>3. Used(e, r)' = Used(e, r)
        BY <1>1 DEF Used
    <2> QED
        BY <1>1, <2>1, <2>2, <2>3, OrderLost
<1> QED
    BY <1>2, <1>3 DEF SampleInv, SamplesInOrder

\* A step keeps the samples in order, and a new position is made of newer ones.
LEMMA SampleStep ==
    ASSUME SampleInv, [Next]_vars
    PROVE  /\ SampleInv'
           /\ \A d \in Device : positions'[d] # positions[d] =>
                  \A s \in Scanner : Before(Used(d, s), Used(d, s)')
<1>1. ASSUME NEW d \in Device, Advertise(d)
      PROVE  SampleInv' /\ UNCHANGED positions
    BY <1>1, AdvertiseStep DEF Advertise, serverState
<1>2. ASSUME NEW s \in Scanner, OnWrite(s)
      PROVE  SampleInv' /\ UNCHANGED positions
    BY <1>2, OnWriteStep DEF OnWrite
<1>3. ASSUME NEW s \in Scanner, LinkLost(s)
      PROVE  SampleInv' /\ UNCHANGED positions
    BY <1>3, LinkLostStep DEF LinkLost, serverState
<1>4. CASE Stopped \/ Raised
    <2>1. SampleInv' /\ \A d \in Device : positions'[d] = {}
        BY <1>4, StopsStep DEF Stopped, Raised
    <2> QED
        BY <2>1 DEF Before, Used
<1>5. CASE UNCHANGED <<adverts, chan, buffers, positions>>
    BY <1>5 DEF SampleInv, SampleTypeOK, SamplesInOrder, Used
<1> QED
    BY <1>1, <1>2, <1>3, <1>4, <1>5, DequeueStep DEF Next, vars, sampleVars,
       serverState, Dequeue, DequeueEnds, Started, BoardActs

LEMMA SampleInit == Init => SampleInv
<1> SUFFICES ASSUME Init PROVE SampleInv
    OBVIOUS
<1>1. SampleTypeOK
    BY DEF Init, NoBuffers, SampleTypeOK
<1>2. ASSUME NEW d \in Device, NEW s \in Scanner
      PROVE  InOrder(Used(d, s), buffers[d][s], chan[s], d, adverts[d])
    <2>1. Used(d, s) = {} /\ buffers[d][s] = << >> /\ chan[s] = << >>
        BY DEF Init, NoBuffers, Used
    <2> QED
        BY <2>1, OrderEmpty
<1> QED
    BY <1>1, <1>2 DEF SampleInv, SamplesInOrder

\* A position is never replaced by one made of samples as old, and no sample is
\* used twice: for any number of boards and devices, through any loss of links
\* and samples and any number of restarts of the server.
THEOREM PositionsAlwaysAdvance == Spec => PositionsAdvance
<1>1. Init => SampleInv
    BY SampleInit
<1>2. SampleInv /\ [Next]_vars => SampleInv'
    BY SampleStep
<1>3. SampleInv /\ [Next]_vars =>
          [\A d \in Device :
               positions'[d] # positions[d] =>
                   \A t \in positions[d], u \in positions'[d] :
                       \A s \in Scanner : t[s] < u[s]]_vars
    BY SampleStep DEF Before, Used
<1> QED
    BY <1>1, <1>2, <1>3, PTL DEF Spec, PositionsAdvance

-----------------------------------------------------------------------------
(* How far apart the samples of one position are. *)

\* How many of the first k samples in channel c are of device d.
Rank(c, d, k) == Cardinality({l \in 1 .. k : c[l].device = d})

LEMMA RankFinite ==
    ASSUME NEW c, NEW d, NEW k \in Nat
    PROVE  /\ IsFiniteSet({l \in 1 .. k : c[l].device = d})
           /\ Rank(c, d, k) \in Nat
<1>1. IsFiniteSet(1 .. k)
    BY FS_Interval
<1>2. IsFiniteSet({l \in 1 .. k : c[l].device = d})
    BY <1>1, FS_Subset
<1> QED
    BY <1>2, FS_CardinalityType DEF Rank

LEMMA RankZero ==
    ASSUME NEW c, NEW d PROVE Rank(c, d, 0) = 0
<1>1. {l \in 1 .. 0 : c[l].device = d} = {}
    OBVIOUS
<1> QED
    BY <1>1, FS_EmptySet DEF Rank

LEMMA RankNext ==
    ASSUME NEW c, NEW d, NEW k \in Nat
    PROVE  Rank(c, d, k + 1)
               = Rank(c, d, k) + (IF c[k + 1].device = d THEN 1 ELSE 0)
<1> DEFINE S == {l \in 1 .. k : c[l].device = d}
           T == {l \in 1 .. k + 1 : c[l].device = d}
<1>1. IsFiniteSet(S) /\ Rank(c, d, k) = Cardinality(S) /\ Cardinality(S) \in Nat
    BY RankFinite DEF Rank
<1>2. 1 .. k + 1 = (1 .. k) \cup {k + 1} /\ k + 1 \notin 1 .. k
    OBVIOUS
<1>3. CASE c[k + 1].device = d
    <2>1. T = S \cup {k + 1} /\ k + 1 \notin S
        BY <1>2, <1>3
    <2> HIDE DEF S
    <2>2. Cardinality(S \cup {k + 1}) = Cardinality(S) + 1
        BY <1>1, <2>1, FS_AddElement
    <2> QED
        BY <1>1, <1>3, <2>1, <2>2 DEF Rank
<1>4. CASE c[k + 1].device # d
    <2>1. T = S
        BY <1>2, <1>4
    <2>2. Rank(c, d, k + 1) = Cardinality(T)
        BY DEF Rank
    <2> HIDE DEF S, T
    <2> QED
        BY <1>1, <1>4, <2>1, <2>2
<1> QED
    BY <1>3, <1>4

\* What the first k samples are decides the rank.
LEMMA RankSame ==
    ASSUME NEW c, NEW a, NEW d, NEW k \in Nat,
           \A l \in 1 .. k : a[l].device = c[l].device
    PROVE  Rank(a, d, k) = Rank(c, d, k)
<1>1. {l \in 1 .. k : a[l].device = d} = {l \in 1 .. k : c[l].device = d}
    OBVIOUS
<1> QED
    BY <1>1 DEF Rank

\* A sample that joins adds to the rank of its own device only.
LEMMA RankAppend ==
    ASSUME NEW c \in Seq(Heard), NEW m \in Heard, NEW d
    PROVE  /\ \A k \in 0 .. Len(c) : Rank(Append(c, m), d, k) = Rank(c, d, k)
           /\ Rank(Append(c, m), d, Len(Append(c, m)))
                  = Rank(c, d, Len(c)) + (IF m.device = d THEN 1 ELSE 0)
<1> DEFINE a == Append(c, m)
<1>1. Len(a) = Len(c) + 1 /\ Len(c) \in Nat
    OBVIOUS
<1>2. (\A i \in 1 .. Len(c) : a[i] = c[i]) /\ a[Len(c) + 1] = m
    BY AppendProperties
<1> HIDE DEF a
<1>3. \A k \in 0 .. Len(c) : Rank(a, d, k) = Rank(c, d, k)
    <2> SUFFICES ASSUME NEW k \in 0 .. Len(c) PROVE Rank(a, d, k) = Rank(c, d, k)
        OBVIOUS
    <2>1. k \in Nat /\ \A l \in 1 .. k : l \in 1 .. Len(c)
        BY <1>1
    <2>2. \A l \in 1 .. k : a[l].device = c[l].device
        BY <1>2, <2>1
    <2> QED
        BY <2>1, <2>2, RankSame
<1>4. Rank(a, d, Len(a))
          = Rank(c, d, Len(c)) + (IF m.device = d THEN 1 ELSE 0)
    <2>1. Rank(a, d, Len(c) + 1)
              = Rank(a, d, Len(c)) + (IF a[Len(c) + 1].device = d THEN 1 ELSE 0)
        BY <1>1, RankNext
    <2>2. Len(c) \in 0 .. Len(c)
        BY <1>1
    <2> QED
        BY <1>1, <1>2, <1>3, <2>1, <2>2
<1> QED
    BY <1>3, <1>4 DEF a

\* Without the first sample every other one moves down by its part.
LEMMA RankTail ==
    ASSUME NEW c \in Seq(Heard), c # << >>, NEW d, NEW k \in 0 .. Len(c) - 1
    PROVE  Rank(c, d, k + 1)
               = Rank(Tail(c), d, k) + (IF Head(c).device = d THEN 1 ELSE 0)
<1> DEFINE r == Tail(c)
           S == {l \in 1 .. k : r[l].device = d}
           U == {l \in 2 .. k + 1 : c[l].device = d}
           T == {l \in 1 .. k + 1 : c[l].device = d}
           f == [l \in S |-> l + 1]
<1>1. Len(c) \in Nat \ {0} /\ Len(r) = Len(c) - 1 /\ Head(c) = c[1]
    BY EmptySeq, HeadTailProperties
<1>2. k \in Nat /\ \A l \in 1 .. k : r[l] = c[l + 1]
    BY <1>1, HeadTailProperties
<1>3. IsFiniteSet(S) /\ Rank(r, d, k) = Cardinality(S) /\ Cardinality(S) \in Nat
    BY <1>2, RankFinite DEF Rank
<1> HIDE DEF r
<1>4. f \in Bijection(S, U)
    <2>1. f \in [S -> U]
        BY <1>2
    <2>2. \A l, m \in S : f[l] = f[m] => l = m
        BY <1>2
    <2>3. \A u \in U : \E l \in S : f[l] = u
        <3> SUFFICES ASSUME NEW u \in U PROVE \E l \in S : f[l] = u
            OBVIOUS
        <3>1. u - 1 \in 1 .. k /\ (u - 1) + 1 = u
            BY <1>2
        <3>2. u - 1 \in S
            BY <1>2, <3>1
        <3> QED
            BY <3>1, <3>2
    <2> HIDE DEF f, S, U
    <2> QED
        BY <2>1, <2>2, <2>3 DEF Bijection, Injection, Surjection, IsInjective
<1>5. IsFiniteSet(U) /\ Cardinality(U) = Cardinality(S)
    BY <1>3, <1>4, FS_Bijection DEF ExistsBijection
<1>6. 1 .. k + 1 = (2 .. k + 1) \cup {1} /\ 1 \notin 2 .. k + 1
    BY <1>2
<1>7. CASE Head(c).device = d
    <2>1. T = U \cup {1} /\ 1 \notin U
        BY <1>1, <1>6, <1>7
    <2>2. Cardinality(U \cup {1}) = Cardinality(U) + 1
        BY <1>5, <2>1, FS_AddElement
    <2> HIDE DEF U, S
    <2> QED
        BY <1>3, <1>5, <1>7, <2>1, <2>2 DEF Rank, r
<1>8. CASE Head(c).device # d
    <2>1. T = U
        BY <1>1, <1>6, <1>8
    <2>2. Rank(c, d, k + 1) = Cardinality(T)
        BY DEF Rank
    <2> HIDE DEF U, S, T
    <2> QED
        BY <1>3, <1>5, <1>8, <2>1, <2>2 DEF r
<1> QED
    BY <1>7, <1>8

\* Where the samples of device d that one board has delivered since the server
\* used or lost those before stand: o is how many were used or lost by then, b
\* the buffer, c the channel, n how often d has advertised.  The i-th of them
\* is of the advertisement o + i, or of a later one by no more than the board
\* has missed, x; and so is the one that would come next.
Placed(b, c, d, n, o, x) ==
    /\ \A i \in 1 .. Len(b) : b[i] - (o + i) \in 0 .. x
    /\ \A k \in 1 .. Len(c) : c[k].device = d =>
           c[k].advert - (o + Len(b) + Rank(c, d, k)) \in 0 .. x
    /\ n - (o + Len(b) + Rank(c, d, Len(c))) \in 0 .. x

LEMMA PlacedTypes ==
    ASSUME NEW b \in Seq(Nat), NEW c \in Seq(Heard), NEW d
    PROVE  /\ Len(b) \in Nat /\ Len(c) \in Nat
           /\ \A i \in 1 .. Len(b) : b[i] \in Nat
           /\ \A k \in 1 .. Len(c) : c[k].advert \in Nat
           /\ \A k \in Nat : Rank(c, d, k) \in Nat
<1>1. \A k \in 1 .. Len(c) : c[k] \in Heard
    BY ElementOfSeq
<1>2. \A k \in 1 .. Len(c) : c[k].advert \in Nat
    BY <1>1 DEF Heard
<1>3. \A i \in 1 .. Len(b) : b[i] \in Nat
    BY ElementOfSeq
<1>4. \A k \in Nat : Rank(c, d, k) \in Nat
    BY RankFinite
<1>5. Len(b) \in Nat /\ Len(c) \in Nat
    OBVIOUS
<1> QED
    BY <1>2, <1>3, <1>4, <1>5

\* The device advertises and the board misses it.
LEMMA PlacedMissed ==
    ASSUME NEW b \in Seq(Nat), NEW c \in Seq(Heard), NEW d, NEW n \in Nat,
           NEW o \in Nat, NEW x \in Nat, Placed(b, c, d, n, o, x)
    PROVE  Placed(b, c, d, n + 1, o, x + 1)
<1>1. \A y \in Int : y \in 0 .. x => y \in 0 .. x + 1
    OBVIOUS
<1>2. \A i \in 1 .. Len(b) : b[i] - (o + i) \in 0 .. x + 1
    BY <1>1, PlacedTypes DEF Placed
<1>3. \A k \in 1 .. Len(c) : c[k].device = d =>
          c[k].advert - (o + Len(b) + Rank(c, d, k)) \in 0 .. x + 1
    BY <1>1, PlacedTypes DEF Placed
<1>4. (n + 1) - (o + Len(b) + Rank(c, d, Len(c))) \in 0 .. x + 1
    <2>1. /\ Len(b) \in Nat /\ Rank(c, d, Len(c)) \in Nat
          /\ n - (o + Len(b) + Rank(c, d, Len(c))) \in 0 .. x
        BY PlacedTypes DEF Placed
    <2> QED
        BY <2>1
<1> QED
    BY <1>2, <1>3, <1>4 DEF Placed

\* A sample joins the channel: one of d is of its next advertisement.
LEMMA PlacedHeard ==
    ASSUME NEW b \in Seq(Nat), NEW c \in Seq(Heard), NEW d, NEW n \in Nat,
           NEW o \in Nat, NEW x \in Nat, Placed(b, c, d, n, o, x),
           NEW m \in Heard, NEW j \in Nat,
           IF m.device = d THEN m.advert = n + 1 /\ j = n + 1 ELSE j = n
    PROVE  Placed(b, Append(c, m), d, j, o, x)
<1> DEFINE a == Append(c, m)
<1>1. Len(a) = Len(c) + 1 /\ Len(c) \in Nat
    OBVIOUS
<1>2. (\A i \in 1 .. Len(c) : a[i] = c[i]) /\ a[Len(c) + 1] = m
    BY AppendProperties
<1>3. /\ \A k \in 0 .. Len(c) : Rank(a, d, k) = Rank(c, d, k)
      /\ Rank(a, d, Len(a))
             = Rank(c, d, Len(c)) + (IF m.device = d THEN 1 ELSE 0)
    BY RankAppend
<1> HIDE DEF a
<1>4. Rank(a, d, Len(a))
          = Rank(c, d, Len(c)) + (IF m.device = d THEN 1 ELSE 0)
    BY <1>3
<1>5. ASSUME NEW k \in 1 .. Len(a), a[k].device = d
      PROVE  a[k].advert - (o + Len(b) + Rank(a, d, k)) \in 0 .. x
    <2>1. CASE k \in 1 .. Len(c)
        <3>1. a[k] = c[k] /\ Rank(a, d, k) = Rank(c, d, k)
            BY <1>2, <1>3, <2>1
        <3> QED
            BY <1>5, <2>1, <3>1 DEF Placed
    <2>2. CASE k = Len(c) + 1
        <3>1. m.device = d /\ a[k].advert = n + 1
            BY <1>2, <1>5, <2>2
        <3>2. Rank(a, d, k) = Rank(c, d, Len(c)) + 1
            BY <1>1, <1>4, <2>2, <3>1
        <3>3. /\ Len(b) \in Nat /\ Rank(c, d, Len(c)) \in Nat
              /\ n - (o + Len(b) + Rank(c, d, Len(c))) \in 0 .. x
            BY PlacedTypes DEF Placed
        <3> QED
            BY <3>1, <3>2, <3>3
    <2> QED
        BY <1>1, <2>1, <2>2
<1>6. j - (o + Len(b) + Rank(a, d, Len(a))) \in 0 .. x
    <2>1. /\ Len(b) \in Nat /\ Rank(c, d, Len(c)) \in Nat
          /\ n - (o + Len(b) + Rank(c, d, Len(c))) \in 0 .. x
        BY PlacedTypes DEF Placed
    <2>2. CASE m.device = d
        BY <1>4, <2>1, <2>2
    <2>3. CASE m.device # d
        BY <1>4, <2>1, <2>3
    <2> QED
        BY <2>2, <2>3
<1> QED
    BY <1>5, <1>6 DEF Placed, a

\* on_write takes the first sample from the channel; one of d goes to the buffer.
LEMMA PlacedTaken ==
    ASSUME NEW b \in Seq(Nat), NEW c \in Seq(Heard), NEW d, NEW n \in Nat,
           NEW o \in Nat, NEW x \in Nat, Placed(b, c, d, n, o, x), c # << >>
    PROVE  Placed(IF Head(c).device = d THEN Append(b, Head(c).advert) ELSE b,
                  Tail(c), d, n, o, x)
<1> DEFINE r == Tail(c)
           y == IF Head(c).device = d THEN 1 ELSE 0
           a == IF Head(c).device = d THEN Append(b, Head(c).advert) ELSE b
<1>0. Head(c).advert \in Nat
    <2>1. Head(c) \in Heard
        BY EmptySeq, HeadTailProperties
    <2> QED
        BY <2>1 DEF Heard
<1>1. /\ Len(c) \in Nat \ {0} /\ Len(r) = Len(c) - 1 /\ Head(c) = c[1]
      /\ \A k \in 1 .. Len(r) : r[k] = c[k + 1]
    BY EmptySeq, HeadTailProperties
<1>2. \A k \in 0 .. Len(r) : Rank(c, d, k + 1) = Rank(r, d, k) + y
    BY <1>1, RankTail
<1>3. \A k \in Nat : Rank(r, d, k) \in Nat
    BY RankFinite
<1>4. Len(b) \in Nat /\ Len(a) = Len(b) + y /\ y \in Nat
    BY <1>0
<1>5. \A i \in 1 .. Len(b) : a[i] = b[i]
    BY <1>0, AppendProperties
<1>6. Head(c).device = d => a[Len(b) + 1] = Head(c).advert
    BY <1>0, AppendProperties
<1>7. ASSUME NEW i \in 1 .. Len(a) PROVE a[i] - (o + i) \in 0 .. x
    <2>1. CASE i \in 1 .. Len(b)
        BY <1>5, <2>1 DEF Placed
    <2>2. CASE i \notin 1 .. Len(b)
        <3>1. Head(c).device = d /\ i = Len(b) + 1
            BY <1>4, <2>2
        <3>2. Rank(c, d, 1) = 1
            <4>1. Rank(c, d, 0 + 1)
                      = Rank(c, d, 0) + (IF c[0 + 1].device = d THEN 1 ELSE 0)
                BY RankNext
            <4> QED
                BY <1>1, <3>1, <4>1, RankZero
        <3>3. c[1].advert - (o + Len(b) + Rank(c, d, 1)) \in 0 .. x
            BY <1>1, <3>1 DEF Placed
        <3> QED
            BY <1>1, <1>4, <1>6, <3>1, <3>2, <3>3
    <2> QED
        BY <2>1, <2>2
<1> HIDE DEF a, y
<1>8. ASSUME NEW k \in 1 .. Len(r), r[k].device = d
      PROVE  r[k].advert - (o + Len(a) + Rank(r, d, k)) \in 0 .. x
    <2>1. k + 1 \in 1 .. Len(c) /\ r[k] = c[k + 1]
        BY <1>1
    <2>2. c[k + 1].advert - (o + Len(b) + Rank(c, d, k + 1)) \in 0 .. x
        BY <1>8, <2>1 DEF Placed
    <2>3. /\ Rank(c, d, k + 1) = Rank(r, d, k) + y
          /\ Rank(r, d, k) \in Nat /\ k \in Nat
        <3>1. k \in 0 .. Len(r) /\ k \in Nat
            BY <1>1
        <3> QED
            BY <1>2, <1>3, <3>1
    <2>4. o + Len(b) + Rank(c, d, k + 1) = o + Len(a) + Rank(r, d, k)
        BY <1>4, <2>3
    <2> QED
        BY <2>1, <2>2, <2>4
<1>9. n - (o + Len(a) + Rank(r, d, Len(r))) \in 0 .. x
    <2>1. Len(c) = Len(r) + 1 /\ Len(r) \in 0 .. Len(r) /\ Len(r) \in Nat
        BY <1>1
    <2>2. Rank(c, d, Len(c)) = Rank(r, d, Len(r)) + y /\ Rank(r, d, Len(r)) \in Nat
        BY <1>2, <1>3, <2>1
    <2>3. o + Len(b) + Rank(c, d, Len(c)) = o + Len(a) + Rank(r, d, Len(r))
        BY <1>4, <2>2
    <2> QED
        BY <2>3 DEF Placed
<1> QED
    BY <1>7, <1>8, <1>9 DEF Placed, a, r

\* dequeue takes the k oldest samples from the buffer.
LEMMA PlacedUsed ==
    ASSUME NEW b \in Seq(Nat), NEW c \in Seq(Heard), NEW d, NEW n \in Nat,
           NEW o \in Nat, NEW x \in Nat, Placed(b, c, d, n, o, x),
           NEW k \in Nat, k <= Len(b)
    PROVE  Placed(SubSeq(b, k + 1, Len(b)), c, d, n, o + k, x)
<1> DEFINE rest == SubSeq(b, k + 1, Len(b))
<1>0. \A i \in 1 .. Len(b) : b[i] \in Nat
    BY ElementOfSeq
<1>1. Len(rest) = Len(b) - k /\ Len(b) \in Nat
    BY <1>0, SubSeqProperties
<1>2. \A i \in 1 .. Len(rest) : rest[i] = b[k + i]
    BY <1>0, <1>1, SubSeqProperties
<1> HIDE DEF rest
<1>3. ASSUME NEW i \in 1 .. Len(rest) PROVE rest[i] - (o + k + i) \in 0 .. x
    <2>1. k + i \in 1 .. Len(b) /\ o + k + i = o + (k + i)
        BY <1>1
    <2> QED
        BY <1>2, <2>1 DEF Placed
<1>4. \A j \in Nat : o + k + Len(rest) + j = o + Len(b) + j
    BY <1>1
<1>5. \A j \in Nat : Rank(c, d, j) \in Nat
    BY RankFinite
<1>6. ASSUME NEW j \in 1 .. Len(c), c[j].device = d
      PROVE  c[j].advert - (o + k + Len(rest) + Rank(c, d, j)) \in 0 .. x
    <2>1. o + k + Len(rest) + Rank(c, d, j) = o + Len(b) + Rank(c, d, j)
        <3>1. j \in Nat
            OBVIOUS
        <3> QED
            BY <1>4, <1>5, <3>1
    <2> QED
        BY <1>6, <2>1 DEF Placed
<1>7. n - (o + k + Len(rest) + Rank(c, d, Len(c))) \in 0 .. x
    <2>1. Len(c) \in Nat
        OBVIOUS
    <2>2. o + k + Len(rest) + Rank(c, d, Len(c)) = o + Len(b) + Rank(c, d, Len(c))
        BY <1>4, <1>5, <2>1
    <2> QED
        BY <2>2 DEF Placed
<1> QED
    BY <1>3, <1>6, <1>7 DEF Placed, rest

\* A link is lost with what is in the channel, which is missed.
LEMMA PlacedLost ==
    ASSUME NEW b \in Seq(Nat), NEW c \in Seq(Heard), NEW d, NEW n \in Nat,
           NEW o \in Nat, NEW x \in Nat, Placed(b, c, d, n, o, x)
    PROVE  Placed(b, << >>, d, n, o, x + Rank(c, d, Len(c)))
<1> DEFINE f == Rank(c, d, Len(c))
<1>1. Len(b) \in Nat /\ f \in Nat /\ \A i \in 1 .. Len(b) : b[i] \in Nat
    BY PlacedTypes
<1>2. Len(<< >>) = 0 /\ Rank(<< >>, d, 0) = 0
    BY RankZero
<1>3. n - (o + Len(b) + f) \in 0 .. x
    BY DEF Placed
<1> HIDE DEF f
<1>4. \A i \in 1 .. Len(b) : b[i] - (o + i) \in 0 .. x + f
    BY <1>1 DEF Placed
<1>5. n - (o + Len(b) + Rank(<< >>, d, Len(<< >>))) \in 0 .. x + f
    BY <1>1, <1>2, <1>3
<1> QED
    BY <1>4, <1>5 DEF Placed, f

\* When the server ends, or has never run, the next samples are the first.
LEMMA PlacedEmpty ==
    ASSUME NEW d, NEW n \in Nat, NEW x \in Nat
    PROVE  Placed(<< >>, << >>, d, n, n, x)
<1>1. Len(<< >>) = 0 /\ Rank(<< >>, d, 0) = 0
    BY RankZero
<1> QED
    BY <1>1 DEF Placed

-----------------------------------------------------------------------------
(* The samples stay in their places, and what is missed or on its way is no *)
(* more than what was advertised. *)

MissedType == missed \in [Device -> [Scanner -> Nat]]

Lined(d, s, o) ==
    Placed(buffers[d][s], chan[s], d, adverts[d], o, missed[d][s])

\* All boards have used or lost the same number of samples of a device.
AllLined == \A d \in Device : \E o \in Nat : \A s \in Scanner : Lined(d, s, o)

Counted ==
    \A d \in Device, s \in Scanner : missed[d][s] + InFlight(d, s) <= adverts[d]

SkewInv == SampleInv /\ MissedType /\ AllLined /\ Counted /\ SkewPaid

LEMMA InFlightRank ==
    ASSUME NEW d, NEW s
    PROVE  InFlight(d, s) = Rank(chan[s], d, Len(chan[s]))
    BY DEF InFlight, Rank

\* What the lemmas about one board and device need of their state.
LEMMA LinedTypes ==
    ASSUME SkewInv, NEW d \in Device, NEW s \in Scanner
    PROVE  /\ buffers[d][s] \in Seq(Nat) /\ chan[s] \in Seq(Heard)
           /\ adverts[d] \in Nat /\ missed[d][s] \in Nat
           /\ InFlight(d, s) \in Nat
           /\ missed[d][s] + InFlight(d, s) <= adverts[d]
<1>1. /\ buffers[d][s] \in Seq(Nat) /\ chan[s] \in Seq(Heard)
      /\ adverts[d] \in Nat /\ missed[d][s] \in Nat
      /\ missed[d][s] + InFlight(d, s) <= adverts[d]
    BY DEF SkewInv, SampleInv, SampleTypeOK, MissedType, Counted
<1>2. Len(chan[s]) \in Nat
    BY <1>1
<1>3. InFlight(d, s) \in Nat
    BY <1>2, RankFinite, InFlightRank
<1> QED
    BY <1>1, <1>3

\* A position that stays is paid for as long as nothing is missed less.
LEMMA PaidStays ==
    ASSUME SkewInv, UNCHANGED positions,
           \A d \in Device, s \in Scanner :
               missed'[d][s] \in Nat /\ missed[d][s] <= missed'[d][s]
    PROVE  SkewPaid'
<1> SUFFICES ASSUME NEW d \in Device, NEW t \in positions[d],
                    NEW s \in Scanner, NEW r \in Scanner
             PROVE  t[s] - t[r] <= missed'[d][s]
    BY DEF SkewPaid
<1>1. t[s] \in Nat /\ t[r] \in Nat /\ missed[d][s] \in Nat
    BY LinedTypes DEF SkewInv, SampleInv, SampleTypeOK
<1>2. t[s] - t[r] <= missed[d][s]
    BY DEF SkewInv, SkewPaid
<1> QED
    BY <1>1, <1>2

LEMMA SkewAdvertise ==
    ASSUME SkewInv, NEW d \in Device, Advertise(d)
    PROVE  MissedType' /\ AllLined' /\ Counted' /\ SkewPaid'
<1> DEFINE m == [device |-> d, advert |-> adverts'[d]]
<1>1. /\ adverts[d] \in Nat /\ adverts'[d] = adverts[d] + 1
      /\ \A e \in Device : e # d => adverts'[e] = adverts[e]
    BY DEF Advertise, SkewInv, SampleInv, SampleTypeOK
<1>2. m \in Heard
    BY <1>1 DEF Heard
<1>3. PICK hear \in SUBSET Scanner :
          /\ chan' = [s \in Scanner |->
                         IF s \in hear THEN Append(chan[s], m) ELSE chan[s]]
          /\ missed' = [missed EXCEPT ![d] =
                           [s \in Scanner |->
                               IF s \in hear THEN @[s] ELSE @[s] + 1]]
    BY DEF Advertise
<1>4. UNCHANGED <<buffers, positions>>
    BY DEF Advertise, serverState
<1>5. /\ m.device = d /\ m.advert = adverts[d] + 1
    BY <1>1
<1> HIDE DEF m
<1>6. missed \in [Device -> [Scanner -> Nat]]
    BY DEF SkewInv, MissedType
<1>7. /\ missed' \in [Device -> [Scanner -> Nat]]
      /\ \A s \in Scanner : missed'[d][s] = IF s \in hear THEN missed[d][s]
                                                          ELSE missed[d][s] + 1
      /\ \A e \in Device : e # d => missed'[e] = missed[e]
    <2> DEFINE row == [s \in Scanner |-> IF s \in hear THEN missed[d][s]
                                                       ELSE missed[d][s] + 1]
    <2>1. row \in [Scanner -> Nat]
        BY <1>6
    <2>2. missed' = [missed EXCEPT ![d] = row]
        BY <1>3
    <2>3. \A s \in Scanner : row[s] = IF s \in hear THEN missed[d][s]
                                                    ELSE missed[d][s] + 1
        OBVIOUS
    <2> HIDE DEF row
    <2> QED
        BY <1>6, <2>1, <2>2, <2>3
<1>8. SkewPaid'
    <2>1. ASSUME NEW e \in Device, NEW s \in Scanner
          PROVE  missed'[e][s] \in Nat /\ missed[e][s] <= missed'[e][s]
        <3>1. missed[e][s] \in Nat
            BY <1>6
        <3>2. missed'[e][s] \in {missed[e][s], missed[e][s] + 1}
            BY <1>7
        <3> QED
            BY <3>1, <3>2
    <2> QED
        BY <1>4, <2>1, PaidStays
<1>9. ASSUME NEW e \in Device, NEW s \in Scanner, NEW o \in Nat, Lined(e, s, o)
      PROVE  Lined(e, s, o)'
    <2> DEFINE b == buffers[e][s]
               c == chan[s]
               n == adverts[e]
               x == missed[e][s]
    <2>1. /\ b \in Seq(Nat) /\ c \in Seq(Heard) /\ n \in Nat /\ x \in Nat
          /\ Placed(b, c, e, n, o, x)
        BY <1>9, LinedTypes DEF Lined
    <2>2. buffers'[e][s] = b
        BY <1>4
    <2>3. CASE s \in hear
        <3>1. chan'[s] = Append(c, m) /\ missed'[e][s] = x
            BY <1>3, <1>7, <2>3
        <3>2. adverts'[e] \in Nat
              /\ IF m.device = e THEN m.advert = n + 1 /\ adverts'[e] = n + 1
                                 ELSE adverts'[e] = n
            BY <1>1, <1>5, <2>1
        <3> HIDE DEF b, c, n, x
        <3>3. Placed(b, Append(c, m), e, adverts'[e], o, x)
            BY <1>2, <2>1, <3>2, PlacedHeard
        <3> QED
            BY <2>2, <3>1, <3>3 DEF Lined
    <2>4. CASE s \notin hear /\ e = d
        <3>1. chan'[s] = c /\ missed'[e][s] = x + 1 /\ adverts'[e] = n + 1
            BY <1>1, <1>3, <1>7, <2>4
        <3> HIDE DEF b, c, n, x
        <3>2. Placed(b, c, e, n + 1, o, x + 1)
            BY <2>1, PlacedMissed
        <3> QED
            BY <2>2, <3>1, <3>2 DEF Lined
    <2>5. CASE s \notin hear /\ e # d
        <3>1. chan'[s] = c /\ missed'[e][s] = x /\ adverts'[e] = n
            BY <1>1, <1>3, <1>7, <2>5
        <3> HIDE DEF b, c, n, x
        <3> QED
            BY <2>1, <2>2, <3>1 DEF Lined
    <2> QED
        BY <2>3, <2>4, <2>5
<1>10. AllLined'
    BY <1>9 DEF SkewInv, AllLined
<1>11. ASSUME NEW e \in Device, NEW s \in Scanner
       PROVE  missed'[e][s] + InFlight(e, s)' <= adverts'[e]
    <2>1. /\ chan[s] \in Seq(Heard) /\ adverts[e] \in Nat
          /\ missed[e][s] \in Nat /\ InFlight(e, s) \in Nat
          /\ missed[e][s] + InFlight(e, s) <= adverts[e]
        BY LinedTypes
    <2>2. InFlight(e, s)' = Rank(chan'[s], e, Len(chan'[s]))
        BY DEF InFlight, Rank
    <2>3. CASE s \in hear
        <3>1. InFlight(e, s)'
                  = InFlight(e, s) + (IF m.device = e THEN 1 ELSE 0)
            BY <1>2, <1>3, <2>1, <2>2, <2>3, RankAppend, InFlightRank
        <3>2. missed'[e][s] = missed[e][s]
            BY <1>7, <2>3
        <3> QED
            BY <1>1, <1>5, <2>1, <3>1, <3>2
    <2>4. CASE s \notin hear
        <3>1. InFlight(e, s)' = InFlight(e, s)
            BY <1>3, <2>2, <2>4, InFlightRank
        <3>2. missed'[e][s] = missed[e][s] + (IF e = d THEN 1 ELSE 0)
            BY <1>6, <1>7, <2>4
        <3> QED
            BY <1>1, <2>1, <3>1, <3>2
    <2> QED
        BY <2>3, <2>4
<1> QED
    BY <1>7, <1>8, <1>10, <1>11 DEF MissedType, Counted

LEMMA SkewOnWrite ==
    ASSUME SkewInv, NEW s \in Scanner, OnWrite(s)
    PROVE  MissedType' /\ AllLined' /\ Counted' /\ SkewPaid'
<1> DEFINE m == Head(chan[s])
<1>0. /\ chan \in [Scanner -> Seq(Heard)]
      /\ buffers \in [Device -> [Scanner -> Seq(Nat)]] /\ chan[s] # << >>
    BY DEF OnWrite, SkewInv, SampleInv, SampleTypeOK
<1>1. m.device \in Device /\ m.advert \in Nat
    <2>1. m \in Heard
        BY <1>0, EmptySeq, HeadTailProperties
    <2> QED
        BY <2>1 DEF Heard
<1>2. /\ chan' = [chan EXCEPT ![s] = Tail(@)]
      /\ buffers' = [buffers EXCEPT ![m.device][s] = Append(@, m.advert)]
      /\ UNCHANGED <<adverts, missed, positions>>
    BY DEF OnWrite
<1> HIDE DEF m
<1>3. MissedType'
    BY <1>2 DEF SkewInv, MissedType
<1>4. SkewPaid'
    BY <1>2 DEF SkewInv, SkewPaid
<1>5. ASSUME NEW e \in Device, NEW r \in Scanner, NEW o \in Nat, Lined(e, r, o)
      PROVE  Lined(e, r, o)'
    <2>1. /\ buffers[e][r] \in Seq(Nat) /\ chan[r] \in Seq(Heard)
          /\ adverts[e] \in Nat /\ missed[e][r] \in Nat
          /\ Placed(buffers[e][r], chan[r], e, adverts[e], o, missed[e][r])
        BY <1>5, LinedTypes DEF Lined
    <2>2. CASE r = s
        <3>1. chan'[r] = Tail(chan[r])
            BY <1>0, <1>2, <2>2
        <3>2. buffers'[e][r] = IF m.device = e THEN Append(buffers[e][r], m.advert)
                                               ELSE buffers[e][r]
            BY <1>0, <1>1, <1>2, <2>2
        <3>3. Placed(IF Head(chan[r]).device = e
                     THEN Append(buffers[e][r], Head(chan[r]).advert)
                     ELSE buffers[e][r],
                     Tail(chan[r]), e, adverts[e], o, missed[e][r])
            BY <1>0, <2>1, <2>2, PlacedTaken
        <3> QED
            BY <1>2, <2>2, <3>1, <3>2, <3>3 DEF m, Lined
    <2>3. CASE r # s
        <3>1. chan'[r] = chan[r] /\ buffers'[e][r] = buffers[e][r]
            BY <1>0, <1>1, <1>2, <2>3
        <3> QED
            BY <1>2, <2>1, <3>1 DEF Lined
    <2> QED
        BY <2>2, <2>3
<1>6. AllLined'
    BY <1>5 DEF SkewInv, AllLined
<1>7. ASSUME NEW e \in Device, NEW r \in Scanner
      PROVE  missed'[e][r] + InFlight(e, r)' <= adverts'[e]
    <2>1. /\ chan[r] \in Seq(Heard) /\ adverts[e] \in Nat
          /\ missed[e][r] \in Nat /\ InFlight(e, r) \in Nat
          /\ missed[e][r] + InFlight(e, r) <= adverts[e]
        BY LinedTypes
    <2>2. InFlight(e, r)' = Rank(chan'[r], e, Len(chan'[r]))
        BY DEF InFlight, Rank
    <2>3. CASE r = s
        <3>1. chan'[r] = Tail(chan[r])
            BY <1>0, <1>2, <2>3
        <3>2. /\ Len(chan[r]) \in Nat \ {0}
              /\ Len(Tail(chan[r])) = Len(chan[r]) - 1
              /\ Len(chan[r]) - 1 \in 0 .. Len(chan[r]) - 1
            BY <1>0, <2>1, <2>3, EmptySeq, HeadTailProperties
        <3>3. Rank(chan[r], e, (Len(chan[r]) - 1) + 1)
                  = Rank(Tail(chan[r]), e, Len(chan[r]) - 1)
                        + (IF Head(chan[r]).device = e THEN 1 ELSE 0)
            BY <1>0, <2>1, <2>3, <3>2, RankTail
        <3>4. (Len(chan[r]) - 1) + 1 = Len(chan[r]) /\ Len(chan[r]) - 1 \in Nat
            BY <3>2
        <3>5. Rank(Tail(chan[r]), e, Len(chan[r]) - 1) \in Nat
            BY <3>4, RankFinite
        <3>6. InFlight(e, r)' <= InFlight(e, r) /\ InFlight(e, r)' \in Nat
            BY <2>1, <2>2, <3>1, <3>2, <3>3, <3>4, <3>5, InFlightRank
        <3> QED
            BY <1>2, <2>1, <3>6
    <2>4. CASE r # s
        <3>1. InFlight(e, r)' = InFlight(e, r)
            BY <1>0, <1>2, <2>2, <2>4, InFlightRank
        <3> QED
            BY <1>2, <2>1, <3>1
    <2> QED
        BY <2>3, <2>4
<1> QED
    BY <1>3, <1>4, <1>6, <1>7 DEF Counted

\* A new position takes the k-th sample of every board for some k, and these are
\* of the same advertisement but for what each board has missed.
LEMMA SkewDequeue ==
    ASSUME SkewInv, NEW d \in Device, DequeueDevice(d)
    PROVE  MissedType' /\ AllLined' /\ Counted' /\ SkewPaid'
<1> DEFINE b == buffers[d]
           k == Rounds(buffers[d])
<1>1. UNCHANGED <<adverts, chan, missed>>
    BY DEF DequeueDevice
<1>2. MissedType' /\ Counted'
    BY <1>1 DEF SkewInv, MissedType, Counted, InFlight
<1>3. /\ b \in [Scanner -> Seq(Nat)]
      /\ buffers \in [Device -> [Scanner -> Seq(Nat)]]
      /\ positions \in [Device -> SUBSET [Scanner -> Nat]]
    BY DEF SkewInv, SampleInv, SampleTypeOK
<1>4. \A s \in Scanner : k \in Nat /\ k <= Len(b[s])
    BY <1>3, RoundsFit
<1>5. PICK o \in Nat : \A s \in Scanner : Lined(d, s, o)
    BY DEF SkewInv, AllLined
<1>6. CASE k > 0
    <2>1. /\ positions' = [positions EXCEPT ![d] = Tuples(b)]
          /\ buffers' = [buffers EXCEPT ![d] = Rest(b)]
        BY <1>6 DEF DequeueDevice
    <2>2. \A t \in Tuples(b) : \E i \in 1 .. k : \A s \in Scanner : t[s] = b[s][i]
        BY DEF Tuples, Oldest
    <2>3. \A s \in Scanner : Rest(b)[s] = SubSeq(b[s], k + 1, Len(b[s]))
        BY DEF Rest
    <2> HIDE DEF k
    <2>4. ASSUME NEW s \in Scanner, NEW i \in 1 .. k
          PROVE  /\ b[s][i] \in Nat /\ missed[d][s] \in Nat
                 /\ b[s][i] - (o + i) \in 0 .. missed[d][s]
        <3>1. i \in 1 .. Len(b[s])
            BY <1>3, <1>4
        <3> QED
            BY <1>3, <1>5, <3>1, ElementOfSeq, LinedTypes DEF Lined, Placed
    <2>5. ASSUME NEW t \in Tuples(b), NEW s \in Scanner, NEW r \in Scanner
          PROVE  t[s] - t[r] <= missed[d][s]
        <3>1. PICK i \in 1 .. k : t[s] = b[s][i] /\ t[r] = b[r][i]
            BY <2>2
        <3>2. /\ b[s][i] \in Nat /\ b[r][i] \in Nat /\ missed[d][s] \in Nat
              /\ b[s][i] - (o + i) <= missed[d][s] /\ b[r][i] - (o + i) >= 0
            <4>1. /\ b[s][i] \in Nat /\ missed[d][s] \in Nat
                  /\ b[s][i] - (o + i) \in 0 .. missed[d][s]
                BY <2>4
            <4>2. /\ b[r][i] \in Nat /\ missed[d][r] \in Nat
                  /\ b[r][i] - (o + i) \in 0 .. missed[d][r]
                BY <2>4
            <4> HIDE DEF b
            <4> QED
                BY <4>1, <4>2
        <3> HIDE DEF b
        <3> QED
            BY <3>1, <3>2
    <2>6. SkewPaid'
        <3> SUFFICES ASSUME NEW e \in Device, NEW t \in positions'[e],
                            NEW s \in Scanner, NEW r \in Scanner
                     PROVE  t[s] - t[r] <= missed[e][s]
            BY <1>1 DEF SkewPaid
        <3>1. CASE e = d
            <4>1. t \in Tuples(b)
                BY <1>3, <2>1, <3>1
            <4> QED
                BY <2>5, <3>1, <4>1
        <3>2. CASE e # d
            <4>1. t \in positions[e]
                BY <1>3, <2>1, <3>2
            <4> QED
                BY <4>1 DEF SkewInv, SkewPaid
        <3> QED
            BY <3>1, <3>2
    <2>7. ASSUME NEW s \in Scanner
          PROVE  Placed(buffers'[d][s], chan'[s], d, adverts'[d], o + k,
                        missed'[d][s])
        <3>1. /\ b[s] \in Seq(Nat) /\ chan[s] \in Seq(Heard)
              /\ adverts[d] \in Nat /\ missed[d][s] \in Nat
              /\ Placed(b[s], chan[s], d, adverts[d], o, missed[d][s])
            BY <1>5, LinedTypes DEF Lined
        <3>2. buffers'[d][s] = SubSeq(b[s], k + 1, Len(b[s]))
            BY <1>3, <2>1, <2>3
        <3>3. k \in Nat /\ k <= Len(b[s])
            BY <1>4
        <3> HIDE DEF b
        <3>4. Placed(SubSeq(b[s], k + 1, Len(b[s])), chan[s], d, adverts[d], o + k,
                     missed[d][s])
            BY <3>1, <3>3, PlacedUsed
        <3> QED
            BY <1>1, <3>2, <3>4
    <2>8. ASSUME NEW e \in Device PROVE \E q \in Nat : \A s \in Scanner : Lined(e, s, q)'
        <3>1. CASE e = d /\ Scanner # {}
            <4>1. o + k \in Nat
                BY <1>4, <3>1
            <4>2. PICK q \in Nat : q = o + k
                BY <4>1
            <4>3. \A s \in Scanner : Lined(e, s, q)'
                BY <2>7, <3>1, <4>2 DEF Lined
            <4> QED
                BY <4>3
        <3>2. CASE e # d
            <4>1. buffers'[e] = buffers[e]
                BY <1>3, <2>1, <3>2
            <4>2. PICK q \in Nat : \A s \in Scanner : Lined(e, s, q)
                BY DEF SkewInv, AllLined
            <4>3. \A s \in Scanner : Lined(e, s, q)'
                BY <1>1, <4>1, <4>2 DEF Lined
            <4> QED
                BY <4>3
        <3>3. CASE Scanner = {}
            BY <3>3
        <3> QED
            BY <3>1, <3>2, <3>3
    <2>9. AllLined'
        BY <2>8 DEF AllLined
    <2> QED
        BY <1>2, <2>6, <2>9
<1>7. CASE ~(k > 0)
    <2>1. UNCHANGED <<positions, buffers>>
        BY <1>7 DEF DequeueDevice
    <2>2. AllLined' /\ SkewPaid'
        BY <1>1, <2>1 DEF SkewInv, AllLined, Lined, SkewPaid
    <2> QED
        BY <1>2, <2>2
<1> QED
    BY <1>6, <1>7

\* When the server ends, every board starts again at the next advertisement.
LEMMA SkewStops ==
    ASSUME SkewInv, Stops
    PROVE  MissedType' /\ AllLined' /\ Counted' /\ SkewPaid'
<1>1. /\ chan' = [s \in Scanner |-> << >>]
      /\ missed' = [d \in Device |-> [s \in Scanner |->
                       missed[d][s] + InFlight(d, s)]]
      /\ buffers' = [d \in Device |-> [s \in Scanner |-> << >>]]
      /\ positions' = [d \in Device |-> {}]
      /\ UNCHANGED adverts
    BY DEF Stops, NoBuffers
<1>2. SkewPaid'
    BY <1>1 DEF SkewPaid
<1>3. ASSUME NEW d \in Device, NEW s \in Scanner
      PROVE  /\ missed'[d][s] \in Nat /\ adverts[d] \in Nat
             /\ Placed(buffers'[d][s], chan'[s], d, adverts'[d], adverts[d],
                       missed'[d][s])
             /\ missed'[d][s] + InFlight(d, s)' <= adverts'[d]
    <2>1. /\ adverts[d] \in Nat /\ missed[d][s] \in Nat /\ InFlight(d, s) \in Nat
          /\ missed[d][s] + InFlight(d, s) <= adverts[d]
        BY LinedTypes
    <2>2. /\ missed'[d][s] = missed[d][s] + InFlight(d, s)
          /\ buffers'[d][s] = << >> /\ chan'[s] = << >>
        BY <1>1
    <2>3. InFlight(d, s)' = 0
        <3>1. InFlight(d, s)' = Rank(chan'[s], d, Len(chan'[s]))
            BY DEF InFlight, Rank
        <3>2. Len(<< >>) = 0
            OBVIOUS
        <3> QED
            BY <2>2, <3>1, <3>2, RankZero
    <2>4. missed'[d][s] \in Nat
        BY <2>1, <2>2
    <2>5. Placed(<< >>, << >>, d, adverts[d], adverts[d], missed'[d][s])
        BY <2>1, <2>4, PlacedEmpty
    <2> QED
        BY <1>1, <2>1, <2>2, <2>3, <2>4, <2>5
<1>4. MissedType'
    BY <1>1, <1>3 DEF MissedType
<1>5. ASSUME NEW d \in Device
      PROVE  \E o \in Nat : \A s \in Scanner : Lined(d, s, o)'
    <2>1. PICK o \in Nat : o = adverts[d]
        BY DEF SkewInv, SampleInv, SampleTypeOK
    <2>2. \A s \in Scanner : Lined(d, s, o)'
        BY <1>3, <2>1 DEF Lined
    <2> QED
        BY <2>2
<1>6. AllLined'
    BY <1>5 DEF AllLined
<1> QED
    BY <1>2, <1>3, <1>4, <1>6 DEF Counted

LEMMA SkewLinkLost ==
    ASSUME SkewInv, NEW s \in Scanner, LinkLost(s)
    PROVE  MissedType' /\ AllLined' /\ Counted' /\ SkewPaid'
<1>1. /\ chan' = [chan EXCEPT ![s] = << >>]
      /\ missed' = [d \in Device |->
                       [missed[d] EXCEPT ![s] = @ + InFlight(d, s)]]
      /\ UNCHANGED <<adverts, buffers, positions>>
    BY DEF LinkLost, LosesSamples, serverState
<1>2. /\ missed \in [Device -> [Scanner -> Nat]]
      /\ chan \in [Scanner -> Seq(Heard)]
    BY DEF SkewInv, SampleInv, SampleTypeOK, MissedType
<1>3. ASSUME NEW d \in Device, NEW r \in Scanner
      PROVE  \/ /\ r = s /\ chan'[r] = << >>
                /\ missed'[d][r] = missed[d][r] + InFlight(d, r)
             \/ /\ r # s /\ chan'[r] = chan[r]
                /\ missed'[d][r] = missed[d][r]
    BY <1>1, <1>2
<1>4. ASSUME NEW d \in Device, NEW r \in Scanner
      PROVE  missed'[d][r] \in Nat /\ missed[d][r] <= missed'[d][r]
    <2>1. missed[d][r] \in Nat /\ InFlight(d, r) \in Nat
        BY LinedTypes
    <2> QED
        BY <1>3, <2>1
<1>5. SkewPaid'
    BY <1>1, <1>4, PaidStays
<1>6. MissedType'
    <2>1. \A d \in Device : missed'[d] \in [Scanner -> Nat]
        <3> SUFFICES ASSUME NEW d \in Device PROVE missed'[d] \in [Scanner -> Nat]
            OBVIOUS
        <3>1. missed'[d] = [missed[d] EXCEPT ![s] = @ + InFlight(d, s)]
            BY <1>1
        <3>2. DOMAIN missed'[d] = Scanner
              /\ missed'[d] = [r \in Scanner |-> missed'[d][r]]
            BY <1>2, <3>1
        <3> QED
            BY <1>4, <3>2
    <2> QED
        BY <1>1, <2>1 DEF MissedType
<1>7. ASSUME NEW d \in Device, NEW r \in Scanner, NEW o \in Nat, Lined(d, r, o)
      PROVE  Lined(d, r, o)'
    <2>1. /\ buffers[d][r] \in Seq(Nat) /\ chan[r] \in Seq(Heard)
          /\ adverts[d] \in Nat /\ missed[d][r] \in Nat
          /\ Placed(buffers[d][r], chan[r], d, adverts[d], o, missed[d][r])
        BY <1>7, LinedTypes DEF Lined
    <2>2. Placed(buffers[d][r], << >>, d, adverts[d], o,
                 missed[d][r] + InFlight(d, r))
        BY <2>1, PlacedLost, InFlightRank
    <2> QED
        BY <1>1, <1>3, <2>1, <2>2 DEF Lined
<1>8. AllLined'
    BY <1>7 DEF SkewInv, AllLined
<1>9. ASSUME NEW d \in Device, NEW r \in Scanner
      PROVE  missed'[d][r] + InFlight(d, r)' <= adverts'[d]
    <2>1. /\ adverts[d] \in Nat /\ missed[d][r] \in Nat /\ InFlight(d, r) \in Nat
          /\ missed[d][r] + InFlight(d, r) <= adverts[d]
        BY LinedTypes
    <2>2. InFlight(d, r)' = Rank(chan'[r], d, Len(chan'[r]))
        BY DEF InFlight, Rank
    <2>3. CASE r = s
        <3>1. Len(<< >>) = 0
            OBVIOUS
        <3>2. chan'[r] = << >> /\ missed'[d][r] = missed[d][r] + InFlight(d, r)
            BY <1>3, <2>3
        <3>3. InFlight(d, r)' = 0
            BY <2>2, <3>1, <3>2, RankZero
        <3> QED
            BY <1>1, <2>1, <3>2, <3>3
    <2>4. CASE r # s
        <3>1. chan'[r] = chan[r] /\ missed'[d][r] = missed[d][r]
            BY <1>3, <2>4
        <3>2. InFlight(d, r)' = InFlight(d, r)
            BY <2>2, <3>1, InFlightRank
        <3> QED
            BY <1>1, <2>1, <3>1, <3>2
    <2> QED
        BY <2>3, <2>4
<1> QED
    BY <1>5, <1>6, <1>8, <1>9 DEF Counted

LEMMA SkewStep == SkewInv /\ [Next]_vars => SkewInv'
<1> SUFFICES ASSUME SkewInv, [Next]_vars PROVE SkewInv'
    OBVIOUS
<1>1. SampleInv'
    BY SampleStep DEF SkewInv
<1>2. CASE UNCHANGED <<adverts, chan, missed, buffers, positions>>
    BY <1>1, <1>2
    DEF SkewInv, MissedType, AllLined, Lined, Counted, InFlight, SkewPaid
<1>3. ASSUME NEW d \in Device, Advertise(d) \/ DequeueDevice(d) PROVE SkewInv'
    BY <1>1, <1>3, SkewAdvertise, SkewDequeue DEF SkewInv
<1>4. ASSUME NEW s \in Scanner, OnWrite(s) \/ LinkLost(s) PROVE SkewInv'
    BY <1>1, <1>4, SkewOnWrite, SkewLinkLost DEF SkewInv
<1>5. CASE Stopped \/ Raised
    BY <1>1, <1>5, SkewStops DEF SkewInv, Stopped, Raised
<1> QED
    BY <1>2, <1>3, <1>4, <1>5 DEF Next, vars, sampleVars, serverState, Dequeue,
       DequeueEnds, Started, BoardActs

LEMMA SkewInit == Init => SkewInv
<1> SUFFICES ASSUME Init PROVE SkewInv
    OBVIOUS
<1>1. SampleInv
    BY SampleInit
<1>2. /\ chan = [s \in Scanner |-> << >>] /\ adverts = [d \in Device |-> 0]
      /\ missed = [d \in Device |-> [s \in Scanner |-> 0]]
      /\ buffers = [d \in Device |-> [s \in Scanner |-> << >>]]
      /\ positions = [d \in Device |-> {}]
    BY DEF Init, NoBuffers
<1>3. MissedType /\ SkewPaid
    BY <1>2 DEF MissedType, SkewPaid
<1>4. ASSUME NEW d \in Device, NEW s \in Scanner
      PROVE  Lined(d, s, 0) /\ missed[d][s] + InFlight(d, s) <= adverts[d]
    <2>1. Lined(d, s, 0)
        BY <1>2, PlacedEmpty DEF Lined
    <2>2. Len(<< >>) = 0
        OBVIOUS
    <2>3. InFlight(d, s) = 0
        BY <1>2, <2>2, InFlightRank, RankZero
    <2> QED
        BY <1>2, <2>1, <2>3
<1>5. AllLined
    BY <1>4 DEF AllLined
<1> QED
    BY <1>1, <1>3, <1>4, <1>5 DEF SkewInv, Counted

\* The samples behind a position are of the same advertisement but for those
\* that a board did not deliver: for any number of boards, devices and samples,
\* through any loss of links and samples and any number of restarts.
THEOREM SkewAlwaysPaid == Spec => []SkewPaid
<1>1. SkewInv => SkewPaid
    BY DEF SkewInv
<1> QED
    BY <1>1, SkewInit, SkewStep, PTL DEF Spec

-----------------------------------------------------------------------------
(* Type correctness of the position server. *)

LEMMA CountType ==
    /\ Count \subseteq Nat
    /\ \A d \in Device : 0 \in Count
    /\ \A d \in Device : \A n \in Nat : n < MaxAdverts[d] => n + 1 \in Count
    /\ \A c \in Count : \A n \in Nat : n <= c => n \in Count
<1>1. \A d \in Device : MaxAdverts[d] \in Nat
    BY ServerAssumption
<1>2. \A d \in Device : 0 .. MaxAdverts[d] \subseteq Nat
    BY <1>1
<1>3. \A d \in Device : 0 \in 0 .. MaxAdverts[d]
    BY <1>1
<1>4. \A d \in Device : \A n \in Nat : n < MaxAdverts[d] =>
          n + 1 \in 0 .. MaxAdverts[d]
    BY <1>1
<1>5. \A d \in Device : \A c \in 0 .. MaxAdverts[d] : \A n \in Nat : n <= c =>
          n \in 0 .. MaxAdverts[d]
    BY <1>1
<1>6. Count \subseteq Nat
    BY <1>2 DEF Count
<1>7. \A d \in Device : 0 \in Count
    BY <1>3 DEF Count
<1>8. \A d \in Device : \A n \in Nat : n < MaxAdverts[d] => n + 1 \in Count
    BY <1>4 DEF Count
<1>9. \A c \in Count : \A n \in Nat : n <= c => n \in Count
    BY <1>5 DEF Count
<1> QED
    BY <1>6, <1>7, <1>8, <1>9

LEMMA WiderSeq ==
    ASSUME NEW S, NEW T, S \subseteq T, NEW q \in Seq(S)
    PROVE  q \in Seq(T)
    BY ElementOfSeq

\* What the server keeps, and what is on its way to it.
ServerTypeOK ==
    /\ adverts \in [Device -> Count]
    /\ chan \in [Scanner -> Seq(Sample)]
    /\ buffers \in [Device -> [Scanner -> Seq(Count)]]
    /\ positions \in [Device -> SUBSET Tuple]

KeysOK == known \subseteq Device /\ todo \subseteq keys /\ keys \subseteq known

LEMMA AdvertiseType ==
    ASSUME ServerTypeOK, NEW d \in Device, Advertise(d)
    PROVE  ServerTypeOK'
<1> DEFINE m == [device |-> d, advert |-> adverts'[d]]
<1>1. adverts[d] \in Nat /\ adverts[d] + 1 \in Count
    BY CountType DEF ServerTypeOK, Advertise
<1>2. adverts' \in [Device -> Count] /\ adverts'[d] \in Count
    BY <1>1 DEF ServerTypeOK, Advertise
<1>3. m \in Sample
    BY <1>2 DEF Sample
<1>4. PICK hear \in SUBSET Scanner :
          chan' = [s \in Scanner |->
                      IF s \in hear THEN Append(chan[s], m) ELSE chan[s]]
    BY DEF Advertise
<1> HIDE DEF m
<1>5. \A s \in Scanner :
          chan[s] \in Seq(Sample) /\ Append(chan[s], m) \in Seq(Sample)
    BY <1>3 DEF ServerTypeOK
<1>6. chan' \in [Scanner -> Seq(Sample)]
    BY <1>4, <1>5
<1> QED
    BY <1>2, <1>6 DEF ServerTypeOK, Advertise, serverState

LEMMA OnWriteTypes ==
    ASSUME ServerTypeOK, KeysOK, NEW s \in Scanner, OnWrite(s)
    PROVE  ServerTypeOK' /\ KeysOK'
<1> DEFINE m == Head(chan[s])
<1>1. chan[s] \in Seq(Sample) /\ chan[s] # << >>
    BY DEF OnWrite, ServerTypeOK
<1>2. m \in Sample /\ Tail(chan[s]) \in Seq(Sample)
    BY <1>1, EmptySeq, HeadTailProperties
<1>3. m.device \in Device /\ m.advert \in Count
    BY <1>2 DEF Sample
<1>4. /\ chan' = [chan EXCEPT ![s] = Tail(@)]
      /\ buffers' = [buffers EXCEPT ![m.device][s] = Append(@, m.advert)]
      /\ known' = known \cup {m.device}
      /\ UNCHANGED <<adverts, positions, todo, keys>>
    BY DEF OnWrite
<1> HIDE DEF m
<1>5. Append(buffers[m.device][s], m.advert) \in Seq(Count)
    BY <1>3 DEF ServerTypeOK
<1>6. chan' \in [Scanner -> Seq(Sample)]
    BY <1>2, <1>4 DEF ServerTypeOK
<1>7. buffers' \in [Device -> [Scanner -> Seq(Count)]]
    BY <1>3, <1>4, <1>5 DEF ServerTypeOK
<1>8. KeysOK'
    BY <1>3, <1>4 DEF KeysOK
<1> QED
    BY <1>4, <1>6, <1>7, <1>8 DEF ServerTypeOK

LEMMA DequeueTypes ==
    ASSUME ServerTypeOK, NEW d \in Device, DequeueDevice(d)
    PROVE  ServerTypeOK'
<1> DEFINE b == buffers[d]
           k == Rounds(buffers[d])
<1>1. UNCHANGED <<adverts, chan>>
    BY DEF DequeueDevice
<1>2. b \in [Scanner -> Seq(Count)]
    BY DEF ServerTypeOK
<1>3. \A s \in Scanner : \A i \in 1 .. Len(b[s]) : b[s][i] \in Count
    BY <1>2, ElementOfSeq
<1>4. \A s \in Scanner : k \in Nat /\ k <= Len(b[s])
    <2>1. \A s \in Scanner : b[s] \in Seq(Nat)
        BY <1>2, CountType, WiderSeq
    <2>2. b \in [Scanner -> Seq(Nat)]
        BY <1>2, <2>1
    <2> QED
        BY <2>2, RoundsFit
<1> HIDE DEF b, k
<1>5. Tuples(b) \in SUBSET Tuple
    <2>1. \A i \in 1 .. k : [s \in Scanner |-> b[s][i]] \in [Scanner -> Count]
        BY <1>2, <1>3, <1>4
    <2> QED
        BY <2>1 DEF Tuples, Oldest, Tuple, k, b
<1>6. Rest(b) \in [Scanner -> Seq(Count)]
    <2>1. ASSUME NEW s \in Scanner
          PROVE  SubSeq(b[s], k + 1, Len(b[s])) \in Seq(Count)
        <3>1. k + 1 \in Int /\ Len(b[s]) \in Int
            BY <1>2, <1>4
        <3>2. \A i \in k + 1 .. Len(b[s]) : b[s][i] \in Count
            BY <1>2, <1>3, <1>4
        <3> QED
            BY <3>1, <3>2, SubSeqProperties
    <2> QED
        BY <2>1 DEF Rest, k, b
<1>7. \/ UNCHANGED <<positions, buffers>>
      \/ /\ positions' = [positions EXCEPT ![d] = Tuples(b)]
         /\ buffers' = [buffers EXCEPT ![d] = Rest(b)]
    BY DEF DequeueDevice, b
<1> QED
    BY <1>1, <1>5, <1>6, <1>7 DEF ServerTypeOK

LEMMA ServerTypeStep ==
    ASSUME ServerTypeOK, KeysOK, [Next]_vars
    PROVE  ServerTypeOK' /\ KeysOK'
<1>1. \A S : << >> \in Seq(S)
    OBVIOUS
<1>2. ASSUME NEW d \in Device, Advertise(d) PROVE ServerTypeOK' /\ KeysOK'
    BY <1>2, AdvertiseType DEF Advertise, serverState, KeysOK
<1>3. ASSUME NEW d \in Device, DequeueDevice(d) PROVE ServerTypeOK' /\ KeysOK'
    <2>1. KeysOK'
        BY <1>3 DEF DequeueDevice, KeysOK
    <2> QED
        BY <1>3, <2>1, DequeueTypes
<1>4. ASSUME NEW s \in Scanner, LinkLost(s) PROVE ServerTypeOK' /\ KeysOK'
    <2>1. chan' \in [Scanner -> Seq(Sample)]
        BY <1>1, <1>4 DEF LinkLost, LosesSamples, ServerTypeOK
    <2> QED
        BY <1>4, <2>1 DEF LinkLost, serverState, ServerTypeOK, KeysOK
<1>5. CASE Stopped \/ Raised
    <2>1. /\ chan' = [s \in Scanner |-> << >>] /\ UNCHANGED adverts
          /\ buffers' = [d \in Device |-> [s \in Scanner |-> << >>]]
          /\ positions' = [d \in Device |-> {}]
          /\ known' = {} /\ todo' = {} /\ keys' = {}
        BY <1>5 DEF Stopped, Raised, Stops, NoBuffers
    <2> QED
        BY <1>1, <2>1 DEF ServerTypeOK, KeysOK
<1>6. CASE Dequeue \/ DequeueEnds
    BY <1>6 DEF Dequeue, DequeueEnds, ServerTypeOK, KeysOK
<1>7. CASE UNCHANGED sampleVars
    BY <1>7 DEF sampleVars, serverState, ServerTypeOK, KeysOK
<1> QED
    BY <1>2, <1>3, <1>4, <1>5, <1>6, <1>7, OnWriteTypes
    DEF Next, vars, Started, BoardActs

LEMMA TypesTogether ==
    ASSUME ScannerTypeOK, ServerTypeOK, KeysOK, SkewInv
    PROVE  TypeOK
<1>1. ASSUME NEW d \in Device, NEW s \in Scanner PROVE missed[d][s] \in Count
    <2>1. /\ missed[d][s] \in Nat /\ InFlight(d, s) \in Nat
          /\ adverts[d] \in Nat /\ missed[d][s] + InFlight(d, s) <= adverts[d]
        BY LinedTypes
    <2>2. missed[d][s] <= adverts[d]
        BY <2>1
    <2> QED
        BY <2>1, <2>2, CountType DEF ServerTypeOK
<1>2. missed \in [Device -> [Scanner -> Count]]
    BY <1>1 DEF SkewInv, MissedType
<1> QED
    BY <1>2 DEF TypeOK, ServerTypeOK, KeysOK

\* Boards, buffers, positions and the loop of dequeue keep their types, also
\* when on_write adds devices while it runs; in particular what a board has not
\* delivered never exceeds what was advertised.
THEOREM ServerTypeCorrect == Spec => []TypeOK
<1>1. Init => ServerTypeOK /\ KeysOK
    <2>1. \A S : << >> \in Seq(S)
        OBVIOUS
    <2> QED
        BY <2>1, CountType DEF Init, NoBuffers, ServerTypeOK, KeysOK
<1>2. ServerTypeOK /\ KeysOK /\ [Next]_vars => ServerTypeOK' /\ KeysOK'
    BY ServerTypeStep
<1>3. ScannerInv /\ ServerTypeOK /\ KeysOK /\ SkewInv => TypeOK
    BY TypesTogether DEF ScannerInv
<1> QED
    BY <1>1, <1>2, <1>3, ImplementsScanner, ScannerInvariant, SkewInit, SkewStep,
       PTL DEF Spec
=============================================================================

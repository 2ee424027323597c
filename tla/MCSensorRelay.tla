--------------------------- MODULE MCSensorRelay ---------------------------
(***************************************************************************)
(* Instances of SensorRelay for TLC: a row of boards as pt3.resc places    *)
(* and numbers them, the last one the sink, from the moment they have      *)
(* connected in either order of their slots.  The boards scan on.         *)
(***************************************************************************)
EXTENDS SensorRelay

CONSTANTS n1, n2, n3, n4

Row == LET pairs == {{n1, n2}, {n2, n3}, {n3, n4}}
       IN [n \in Node |-> {p \in Node : {n, p} \in pairs /\ n # p}]

\* The row has no cycles, as the theorem about rows asks.
ASSUME RowIsTree ==
    \A o \in Node : \E up \in [Node -> Node \cup {NoPeer}] : Rooted(up, o, Row)

\* The numbers of the SOURCEs follow the row; the sink has the next one.
Numbers == [n \in Node |-> CASE n = n1 -> 0 [] n = n2 -> 1
                             [] n = n3 -> 2 [] n = n4 -> 3]

\* The far board measures twice, the one next to it once.
Measurements ==
    [n \in Node |-> CASE n = n1 -> 2 [] n = n2 -> 1 [] OTHER -> 0]

\* The tables of n that hold its neighbours, in either order.
Filled(n) ==
    {row \in [Slot -> Neighbours[n] \cup {NoPeer}] :
        /\ \A p \in Neighbours[n] : \E i \in Slot : row[i] = p
        /\ \A i \in Slot : row[i] # NoPeer <=> i < Cardinality(Neighbours[n])}

\* A network that has formed and has not measured yet.
FormedInit ==
    /\ boot = [n \in Node |-> "ready"]
    /\ advertising = [n \in Node |-> TRUE]
    /\ scanning = [n \in Node |-> TRUE]
    /\ initiating = [n \in Node |-> NoPeer]
    /\ ep = [n \in Node |-> [p \in Node |->
                 IF p \in Neighbours[n] THEN "up" ELSE "down"]]
    /\ disc = [n \in Node |-> [p \in Node |-> FALSE]]
    /\ faults = 0
    /\ scan_work = [n \in Node |-> FALSE]
    /\ num_connections = [n \in Node |-> Cardinality(Neighbours[n])]
    /\ default_connections \in [Node -> UNION {Filled(n) : n \in Node}]
    /\ \A n \in Node : default_connections[n] \in Filled(n)
    /\ char_handles = [n \in Node |-> [i \in Slot |-> i < num_connections[n]]]
    /\ conn_ready = char_handles
    /\ halted = [n \in Node |-> "no"]
    /\ RelayInit

FormedSpec == FormedInit /\ [][RelayNext]_vars /\ RelayFairness
=============================================================================

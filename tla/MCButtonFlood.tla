--------------------------- MODULE MCButtonFlood ---------------------------
(***************************************************************************)
(* Instances of ButtonFlood for TLC: boards in a row, as pt1.resc places   *)
(* them, and three boards that all hear each other and may form a ring.    *)
(***************************************************************************)
EXTENDS ButtonFlood

CONSTANTS n1, n2, n3

\* Every board hears every other one.
Clique == [n \in Node |-> Node \ {n}]

\* A row of boards: n1 - n2 - n3.
Row == LET pairs == {{n1, n2}, {n2, n3}}
       IN [n \in Node |-> {p \in Node : {n, p} \in pairs /\ n # p}]

\* The row has no cycles, as the theorems about rows ask.
ASSUME RowIsTree ==
    \E up \in [Node -> Node \cup {NoPeer}] : Rooted(up, Source, Row)
=============================================================================

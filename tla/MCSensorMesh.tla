---------------------------- MODULE MCSensorMesh ----------------------------
(***************************************************************************)
(* Instances of SensorMesh for TLC: boards in a row, as pt3.resc places    *)
(* them, the last one being the sink.                                      *)
(***************************************************************************)
EXTENDS SensorMesh

CONSTANTS n1, n2, n3

\* A row of boards: n1 - n2 - n3.
Row == LET pairs == {{n1, n2}, {n2, n3}}
       IN [n \in Node |-> {p \in Node : {n, p} \in pairs /\ n # p}]
=============================================================================

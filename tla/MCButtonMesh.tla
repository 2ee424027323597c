--------------------------- MODULE MCButtonMesh ---------------------------
(***************************************************************************)
(* Instances of ButtonMesh for TLC: three boards that all hear each other, *)
(* and boards in a row where each hears only the ones next to it (the      *)
(* layout of pt1.resc).                                                    *)
(***************************************************************************)
EXTENDS ButtonMesh, TLC

CONSTANTS n1, n2, n3, n4

\* Every board hears every other one.
Clique == [n \in Node |-> Node \ {n}]

\* A row of boards: n1 - n2 - n3 - n4, as many of them as the run has.
Row == LET pairs == {{n1, n2}, {n2, n3}, {n3, n4}}
       IN [n \in Node |-> {p \in Node : {n, p} \in pairs /\ n # p}]

\* The boards other than the source are interchangeable in a clique.
Targets == Permutations(Node \ {Source})
=============================================================================

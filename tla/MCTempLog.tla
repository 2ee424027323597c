----------------------------- MODULE MCTempLog -----------------------------
(***************************************************************************)
(* Instances of TempLog for TLC: one central, one peripheral (pt2.resc).   *)
(***************************************************************************)
EXTENDS TempLog

CONSTANTS c, p

InRange == [n \in Node |-> Node \ {n}]
=============================================================================

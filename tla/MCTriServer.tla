---------------------------- MODULE MCTriServer ----------------------------
(***************************************************************************)
(* Instances of TriServer for TLC.  Two boards stand for the three of the  *)
(* project: one that is ahead and one that is behind.                      *)
(***************************************************************************)
EXTENDS TriServer

CONSTANTS s1, s2, d1, d2

\* One device advertises twice, the other comes by once.
Adverts == [d \in Device |-> IF d = d1 THEN 2 ELSE 1]
=============================================================================

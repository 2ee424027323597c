---------------------------- MODULE PortScanner ----------------------------
(***************************************************************************)
(* The evaluation script of Lab 1 (Lab1/code/pt3/PortScanner.py): from the *)
(* SEND lines of the peripheral and the RECV lines of the central it works *)
(* out which temperatures arrived.  A SEND line is [id, t, temp], a RECV   *)
(* line has t and temp and no id; both lists are in the order they came.   *)
(***************************************************************************)
EXTENDS Integers, Sequences, FiniteSets

\* The SEND lines a RECV line may be of: the same temperature, sent before,
\* and not taken by an earlier RECV line.
CandidatesAgain(sent, used, line) ==   \* mutant: a line is taken twice
    {i \in DOMAIN sent : sent[i].temp = line.temp /\ line.t > sent[i].t}
Candidates(sent, used, line) ==
    {i \in DOMAIN sent \ used : sent[i].temp = line.temp /\ line.t > sent[i].t}

\* The nearest of them, the first when two are as near; none, or one.
Nearest(sent, cands) ==
    {i \in cands : \A j \in cands :
        sent[i].t > sent[j].t \/ (sent[i].t = sent[j].t /\ i <= j)}

\* used_sent after the first k RECV lines.
UsedAfter(sent, recv) ==
    LET used[k \in 0 .. Len(recv)] ==
            IF k = 0 THEN {}
            ELSE used[k - 1]
                     \cup Nearest(sent, Candidates(sent, used[k - 1], recv[k]))
    IN used
Matched(sent, recv) == UsedAfter(sent, recv)[Len(recv)]

\* The number of lost temperatures that is reported.
Lost(sent, recv) == Len(sent) - Cardinality(Matched(sent, recv))
=============================================================================

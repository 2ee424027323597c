---------------------------- MODULE LatestEvent ----------------------------
(***************************************************************************)
(* What the button network promises: one board publishes a sequence of     *)
(* button events and shows the newest with its LED; every other board      *)
(* shows some published event, and only ever moves on to a newer one.      *)
(***************************************************************************)
EXTENDS Integers

CONSTANTS
    Node,
    Source,      \* the board with the button
    MaxPresses   \* bound: how many events are published

VARIABLES
    published,   \* events published so far: numbers 0 .. published - 1
    shown,       \* the number of the event each board shows, -1 before any
    lit          \* the LED of each board

latestVars == <<published, shown, lit>>

\* The button is pressed at the events with an even number.
Pressed(k) == k % 2 = 0

LatestTypeOK ==
    /\ published \in 0 .. MaxPresses
    /\ shown \in [Node -> -1 .. published - 1]
    /\ lit \in [Node -> BOOLEAN]

LatestInit ==
    /\ published = 0
    /\ shown = [n \in Node |-> -1]
    /\ lit = [n \in Node |-> FALSE]

\* Board n now shows event k.
Show(n, k) ==
    /\ shown' = [shown EXCEPT ![n] = k]
    /\ lit' = [lit EXCEPT ![n] = Pressed(k)]

Publish ==
    /\ published < MaxPresses
    /\ published' = published + 1
    /\ Show(Source, published)

\* Board n moves on to a newer event, leaving any number of them out.
Adopt(n) ==
    /\ \E k \in shown[n] + 1 .. published - 1 : Show(n, k)
    /\ UNCHANGED published

LatestNext == Publish \/ \E n \in Node \ {Source} : Adopt(n)

LatestSpec == LatestInit /\ [][LatestNext]_latestVars
=============================================================================

---------------------------- MODULE MCListEvents ----------------------------
(* Instances of ListEvents for TLC. *)
EXTENDS ListEvents

CONSTANTS e1, e2

\* The listeners wait for different events, or for both.
MCMatching == [l \in Listener |-> IF l % 3 = 1 THEN {e1} ELSE IF l % 3 = 2 THEN {e1, e2} ELSE {e2}]
MCRepeats == {1, 2, -1}

\* Everything scripts may do to listeners whose callback is not being
\* executed; of their own listener callbacks may dispose.
AllOps == {"register", "pause", "resume", "resume_unpaused", "clear", "delete",
           "destroy", "raise"}
SafeSelfOps == {"clear", "destroy"}

\* Callbacks that pause the factory of their own listener.
PausingSelfOps == SafeSelfOps \cup {"pause"}

=============================================================================

---------------------------- MODULE MCTimeEvents ----------------------------
(* Instances of TimeEvents for TLC. *)
EXTENDS TimeEvents

\* Everything scripts may do to listeners whose callback is not being
\* executed; of their own listener callbacks may dispose, or arm it again.
AllOps == {"register", "pause", "resume", "resume_unpaused", "clear", "delete",
           "pause_one", "resume_one", "destroy", "set_time",
           "register_past", "set_time_past"}
SafeSelfOps == {"clear", "destroy", "resume_one", "set_time", "set_time_past"}

\* Callbacks that pause their own listener, or its factory.
PausingSelfOps == SafeSelfOps \cup {"pause", "pause_one"}

MCTimes == {2, 3}
MCAlarmTimes == 0 .. MaxTime + 3
MCRepeats == {2, -1}

=============================================================================

----------------------------- MODULE AlarmClock -----------------------------
(***************************************************************************)
(* What the time event system promises to its users, without factories,    *)
(* listeners and lists: alarms are set for a time, they can be muted and   *)
(* cancelled at any moment, and the clock does not go on past a multiple   *)
(* of Resolution before every alarm that is due and not muted has rung.    *)
(***************************************************************************)
EXTENDS Naturals

CONSTANTS
  Alarm,       \* the alarms
  Time,        \* the times an alarm can be set for
  Resolution   \* the clock rings at every multiple of Resolution

VARIABLES
  clock,    \* the time
  ringing,  \* whether the clock rings the alarms that are due
  due,      \* for each alarm the set of the time it is set for, {} if none
  muted     \* alarms that are not to ring

vars == <<clock, ringing, due, muted>>

Overdue(a) == \E t \in due[a] : t <= clock

Init ==
  /\ clock = 0
  /\ ringing = FALSE
  /\ due = [a \in Alarm |-> {}]
  /\ muted = {}

\* Set alarm a, which may be born muted.
Arm(a) ==
  /\ due[a] = {}
  /\ \E t \in Time : due' = [due EXCEPT ![a] = {t}]
  /\ muted' \in {muted, muted \cup {a}}
  /\ UNCHANGED <<clock, ringing>>

\* Set an alarm that is armed already for another time, as it rings.
Rearm(a) ==
  /\ ringing /\ a \notin muted
  /\ \E t \in Time : due' = [due EXCEPT ![a] = {t}]
  /\ UNCHANGED <<clock, ringing, muted>>

\* Cancel the alarms S.
Cancel(S) ==
  /\ due' = [a \in Alarm |-> IF a \in S THEN {} ELSE due[a]]
  /\ muted' \in {muted, muted \ S}
  /\ UNCHANGED <<clock, ringing>>

Mute(a) ==
  /\ muted' = muted \cup {a}
  /\ UNCHANGED <<clock, ringing, due>>

Unmute(a) ==
  /\ muted' = muted \ {a}
  /\ UNCHANGED <<clock, ringing, due>>

\* Alarm a rings: for the last time, or it is set for a later time.
Ring(a) ==
  /\ ringing
  /\ a \notin muted /\ Overdue(a)
  /\ \/ due' = [due EXCEPT ![a] = {}]
     \/ \E t \in Time : t > clock /\ due' = [due EXCEPT ![a] = {t}]
  /\ UNCHANGED <<clock, ringing, muted>>

Advance ==
  /\ ~ringing
  /\ clock' = clock + 1
  /\ ringing' = (clock' % Resolution = 0)
  /\ UNCHANGED <<due, muted>>

AllRung ==
  /\ ringing
  /\ \A a \in Alarm \ muted : ~Overdue(a)
  /\ ringing' = FALSE
  /\ UNCHANGED <<clock, due, muted>>

Next ==
  \/ \E a \in Alarm : Arm(a) \/ Rearm(a) \/ Mute(a) \/ Unmute(a) \/ Ring(a)
  \/ \E S \in SUBSET Alarm : Cancel(S)
  \/ Advance
  \/ AllRung

Spec == Init /\ [][Next]_vars

=============================================================================

----------------------------- MODULE Schedules -----------------------------
(***************************************************************************)
(* The schedule of a character (src/world/schedule.cc, schedule_data.cc).  *)
(* An activity, which is a script, runs until somebody says it does not,   *)
(* or until its alarm goes off. Then either the activity that was queued   *)
(* takes its place, or the old one is stopped, the manager script chooses  *)
(* a new one, and that is started. All the while dialogues and others      *)
(* pause and resume the character, any number of times.                    *)
(*                                                                         *)
(* Scripts act between updates, while alarms ring, and when they are       *)
(* called. The alarms of a schedule ring as AlarmClock promises.           *)
(***************************************************************************)
EXTENDS Integers, Sequences

CONSTANTS
  Kind,        \* the scripts that can be an activity
  Missing,     \* those that cannot be imported
  Faulty,      \* those whose constructor fails
  None,        \* no activity
  PauseMod,    \* the pause level is an unsigned integer modulo PauseMod
  Delays,      \* how far away alarms are set
  MaxTime,     \* the last second of the model
  Resolution,  \* alarms ring at the multiples of Resolution
  MaxAlarm     \* the most alarms a schedule has

ScheduleAssumption ==
  /\ Missing \subseteq Kind /\ Faulty \subseteq Kind
  /\ None \notin Kind
  /\ PauseMod \in Nat \ {0, 1}
  /\ Delays \subseteq Nat \ {0}
  /\ MaxTime \in Nat /\ Resolution \in Nat \ {0} /\ MaxAlarm \in Nat

VARIABLES
  paused,    \* how often the schedule is paused (Paused)
  running,   \* whether the activity is to go on (Running)
  script,    \* the activity, and what it has been told last (Schedule)
  queued,    \* the activity that follows, and its alarm (QueuedSchedule)
  call,      \* the method that update is calling, "none" between updates
  alarms,    \* the alarms of Factory, in the order they were added
  now,       \* the time
  ringing    \* whether the alarms that are due are being raised

clock == <<now, ringing>>
vars == <<paused, running, script, queued, call, alarms, clock>>

Told == {"new", "going", "paused"}

NoActivity == [kind |-> None, told |-> "new"]
NoQueue == [kind |-> None, after |-> 0]

Activity == [kind : Kind, told : Told]

Call == {"none", "stop", "run", "start"}

Init ==
  /\ paused = 0 /\ running = FALSE
  /\ script = NoActivity /\ queued = NoQueue
  /\ call = "none"
  /\ alarms = <<>>
  /\ now = 0 /\ ringing = FALSE

-----------------------------------------------------------------------------
(* Calls of methods; an activity that there is not hears nothing. *)

Tell (s, what) == IF s.kind = None THEN s ELSE [s EXCEPT !.told = what]

Usable (k) == k \notin Missing \cup Faulty

\* What script::create_instance leaves of the activity: it is lost if it is
\* the constructor of the new one that fails.
Created (k) ==
  CASE k \in Missing -> script
    [] k \in Faulty \ Missing -> NoActivity
    [] OTHER -> [kind |-> k, told |-> "new"]

\* set_alarm: Factory.clear, then a new alarm with the callback on_alarm.
Alarm (d) == <<[at |-> now + d, connected |-> TRUE]>>

\* set_schedule while no activity is running; it cancels the alarms, and
\* that of the new activity, if any, is set afterwards.
Assign (k, after) ==
  /\ script' = Created (k)
  /\ running' = Usable (k)
  /\ alarms' = IF ~ Usable (k) THEN alarms
               ELSE IF after = 0 THEN <<>>
               ELSE Alarm (after)

-----------------------------------------------------------------------------
(* What scripts do, also those of other characters and of dialogues. *)

\* set_active (false)
Deactivate ==
  /\ paused < PauseMod - 1
  /\ paused' = paused + 1
  /\ script' = IF paused = 0 THEN Tell (script, "paused") ELSE script
  /\ UNCHANGED <<running, queued, call, alarms, clock>>

\* set_active (true); there is a warning if the schedule is active.
Activate ==
  /\ paused > 0
  /\ paused' = paused - 1
  /\ script' = IF paused = 1 THEN Tell (script, "going") ELSE script
  /\ UNCHANGED <<running, queued, call, alarms, clock>>

\* set_running (false)
Stop ==
  /\ running' = FALSE
  /\ UNCHANGED <<paused, script, queued, call, alarms, clock>>

QueueSchedule (k) ==
  /\ queued' = [kind |-> k, after |-> 0]
  /\ UNCHANGED <<paused, running, script, call, alarms, clock>>

QueueAlarm (d) ==
  /\ queued # NoQueue
  /\ queued' = [queued EXCEPT !.after = d]
  /\ UNCHANGED <<paused, running, script, call, alarms, clock>>

\* Mutation: the current alarm is not removed.
SetAlarmAlso (d) ==
  /\ now + d <= MaxTime /\ Len (alarms) < MaxAlarm
  /\ alarms' = alarms \o Alarm (d)
  /\ UNCHANGED <<paused, running, script, queued, call, clock>>

SetAlarm (d) ==
  /\ now + d <= MaxTime
  /\ alarms' = Alarm (d)
  /\ UNCHANGED <<paused, running, script, queued, call, clock>>

\* set_schedule, which only the manager is to use.
SetSchedule (k) ==
  /\ call = "run" /\ ~ running
  /\ Assign (k, 0)
  /\ UNCHANGED <<paused, queued, call, clock>>

Script ==
  \/ Deactivate \/ Activate \/ Stop
  \/ \E k \in Kind : QueueSchedule (k) \/ SetSchedule (k)
  \/ \E d \in Delays : QueueAlarm (d) \/ SetAlarm (d)

-----------------------------------------------------------------------------
(* schedule::update, which calls methods of scripts one after the other. *)

Idle == call = "none" /\ ~ ringing

\* The method stop is called next, if there is an activity.
ToStop (s) == IF s.kind = None THEN "run" ELSE "stop"

\* A queued activity takes the place of the current one, or is forgotten if
\* it cannot be created.
ActivateQueued ==
  /\ Idle /\ ~ running /\ queued # NoQueue
  /\ now + queued.after <= MaxTime
  /\ Assign (queued.kind, queued.after)
  /\ queued' = NoQueue
  /\ call' = IF running' THEN "none" ELSE ToStop (script')
  /\ UNCHANGED <<paused, clock>>

Renew ==
  /\ Idle /\ ~ running /\ queued = NoQueue
  /\ call' = ToStop (script)
  /\ UNCHANGED <<paused, running, script, queued, alarms, clock>>

ReturnStop ==
  /\ call = "stop"
  /\ script' = NoActivity
  /\ call' = "run"
  /\ UNCHANGED <<paused, running, queued, alarms, clock>>

\* The manager has chosen; the activity is started.
ReturnRun ==
  /\ call = "run"
  /\ script' = Tell (script, "going")
  /\ call' = IF script.kind = None THEN "none" ELSE "start"
  /\ UNCHANGED <<paused, running, queued, alarms, clock>>

\* Mutation: an activity that starts while the character is paused is not
\* told to pause.
ReturnStartUnpaused ==
  /\ call = "start"
  /\ call' = "none"
  /\ UNCHANGED <<paused, running, script, queued, alarms, clock>>

ReturnStart ==
  /\ call = "start"
  /\ script' = IF paused > 0 THEN Tell (script, "paused") ELSE script
  /\ call' = "none"
  /\ UNCHANGED <<paused, running, queued, alarms, clock>>

Update == ActivateQueued \/ Renew \/ ReturnStop \/ ReturnRun \/ ReturnStart

-----------------------------------------------------------------------------
(* Time and alarms. *)

Due (i) == alarms[i].at <= now

Tick ==
  /\ Idle
  /\ now < MaxTime
  /\ now' = now + 1
  /\ ringing' = (now' % Resolution = 0)
  /\ UNCHANGED <<paused, running, script, queued, call, alarms>>

\* on_alarm; an alarm that is not connected to it rings to no effect.
OnAlarm (i) ==
  /\ ringing /\ Due (i)
  /\ running' = (running /\ ~ alarms[i].connected)
  /\ alarms' = [j \in 1 .. Len (alarms) - 1 |-> alarms[IF j < i THEN j ELSE j + 1]]
  /\ UNCHANGED <<paused, script, queued, call, clock>>

EndRinging ==
  /\ ringing /\ \A i \in DOMAIN alarms : ~ Due (i)
  /\ ringing' = FALSE
  /\ UNCHANGED <<paused, running, script, queued, call, alarms, now>>

Time == Tick \/ EndRinging \/ \E i \in DOMAIN alarms : OnAlarm (i)

-----------------------------------------------------------------------------
(***************************************************************************)
(* put_state, and get_state of a new schedule. The activity is created     *)
(* anew, started, and paused if need be; its method start may set an alarm *)
(* or queue another activity before the alarms and the queue are loaded.   *)
(* Of the alarms there are then the first is connected to on_alarm.        *)
(***************************************************************************)
Loaded (old) == [i \in DOMAIN old |-> [old[i] EXCEPT !.connected = FALSE]]

\* Mutation: the loaded alarms are not connected again.
ReconnectedNot (a) == a

Reconnected (a) == IF a = <<>> THEN a ELSE [a EXCEPT ![1].connected = TRUE]

SetByStart ==
  {<<>>} \cup
  IF script.kind = None THEN {}
  ELSE {Alarm (d) : d \in {e \in Delays : now + e <= MaxTime}}

QueuedByStart ==
  {NoQueue} \cup
  IF script.kind = None THEN {} ELSE {[kind |-> k, after |-> 0] : k \in Kind}

Reload ==
  /\ Idle
  /\ \E mine \in SetByStart :
       /\ Len (mine) + Len (alarms) <= MaxAlarm
       /\ alarms' = Reconnected (mine \o Loaded (alarms))
  /\ IF queued # NoQueue THEN UNCHANGED queued ELSE queued' \in QueuedByStart
  /\ script' = Tell (script, IF paused > 0 THEN "paused" ELSE "going")
  /\ UNCHANGED <<paused, running, call, clock>>

Next == Script \/ Update \/ Time \/ Reload

Spec == Init /\ [][Next]_vars

-----------------------------------------------------------------------------
(* Properties. *)

\* All parts of the state have their types.
TypeOK ==
  /\ paused \in 0 .. PauseMod - 1
  /\ running \in BOOLEAN
  /\ script \in Activity \cup {NoActivity}
  /\ queued \in [kind : Kind, after : Delays \cup {0}] \cup {NoQueue}
  /\ call \in Call
  /\ alarms \in Seq ([at : 0 .. MaxTime, connected : BOOLEAN])
  /\ now \in 0 .. MaxTime
  /\ ringing \in BOOLEAN

\* A schedule that counts as running has an activity: update would never
\* look for another one, and the character would stand there for ever.
HasActivity == running => script.kind # None

\* However pausing, changing activities, saving and loading are mixed, an
\* activity that has been started is paused if and only if the character is.
PausedIsTold ==
  script.kind # None /\ script.told # "new" =>
    IF call = "start" THEN paused = 0 => script.told = "going"
    ELSE paused > 0 <=> script.told = "paused"

\* A running schedule has an activity that knows whether it is to pause.
ActivityAgrees == TypeOK /\ HasActivity /\ PausedIsTold

Connected == {i \in DOMAIN alarms : alarms[i].connected}

\* "Only one alarm can be active at any given time" (schedule.h), also when
\* a schedule that has one is loaded and sets another.
OneAlarm == \A i, j \in Connected : i = j

Pending == Connected # {}

\* An activity with an alarm comes to its end: as long as it is running the
\* alarm is not lost, and some time it rings.
AlarmEnds ==
  /\ [][running /\ Pending /\ running' => Pending']_vars
  /\ Pending ~> ~ running \/ ~ Pending

\* "When starting a new schedule, its start method is called" (schedule.h).
StartedInUse == call = "none" /\ running => script.told # "new"
=============================================================================

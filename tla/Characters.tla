----------------------------- MODULE Characters ------------------------------
(***************************************************************************)
(* What a character is about when nobody plays it: the tasks that move it  *)
(* to where scripts send it, and the schedule that chooses what it does.   *)
(* Each is run by itself, on variables of its own; Scenes says which are.  *)
(***************************************************************************)
EXTENDS Integers, Sequences

CONSTANTS
  Character, MaxTasks, Frames, Patience, MaxBlocked, MaxPath,
  Careless,  \* see PathTasks
  Kind, Missing, Faulty, PauseMod, Delays, MaxTime, Resolution,
  MaxAlarm,  \* see Schedules
  None,
  Scenes       \* the components to be run

VARIABLES
  pf, at, calling, hold,
  paused, running, script, queued, call, alarms, now, ringing,
  scene        \* the component that is run

P == INSTANCE PathTasks
S == INSTANCE Schedules

pathTasksVars == <<pf, at, calling, hold>>
schedulesVars == <<paused, running, script, queued, call, alarms, now, ringing>>
vars == <<scene, pathTasksVars, schedulesVars>>

ASSUME PathAssumption == P!PathAssumption
ASSUME ScheduleAssumption == S!ScheduleAssumption

-----------------------------------------------------------------------------
\* The component that is not run stays as it begins.
Init == scene \in Scenes /\ P!Init /\ S!Init

PathTasksStep == scene = "tasks" /\ P!Next /\ UNCHANGED <<scene, schedulesVars>>
SchedulesStep == scene = "schedule" /\ S!Next /\ UNCHANGED <<scene, pathTasksVars>>

Next == PathTasksStep \/ SchedulesStep

Spec == Init /\ [][Next]_vars

\* A task: update is called for every frame, callbacks return, and a character
\* that is on its way gets on. A schedule: methods return, alarms are raised
\* one after the other, and the clock goes on.
FairSpec ==
  /\ Spec
  /\ WF_pathTasksVars (scene = "tasks" /\ P!Update)
  /\ \A id \in P!Id : SF_pathTasksVars (scene = "tasks" /\ P!Advance (id))
  /\ WF_schedulesVars (scene = "schedule" /\ S!ReturnStop)
  /\ WF_schedulesVars (scene = "schedule" /\ S!ReturnRun)
  /\ WF_schedulesVars (scene = "schedule" /\ S!ReturnStart)
  /\ WF_schedulesVars (scene = "schedule" /\ S!EndRinging)
  /\ \A i \in 1 .. MaxAlarm :
       WF_schedulesVars (scene = "schedule" /\ i \in DOMAIN alarms /\ S!OnAlarm (i))
  /\ SF_schedulesVars (scene = "schedule" /\ S!Tick)

-----------------------------------------------------------------------------
(* Properties. *)

\* Tasks, characters and the ids that scripts hold agree, however slots are
\* given back and used again in the middle of update.
TasksAgree == scene = "tasks" => P!TasksAgree

\* The end of a task is told to the script that waits for it, and to no other.
EndsAreTold == P!EndsAreTold

\* Every task that is not paused ends, unless characters fall down again and
\* again (which nobody counts), or games are loaded again and again.
TaskEnds == P!TaskEnds

\* A running schedule has an activity, and however pausing, changing
\* activities, saving and loading are mixed, one that has been started is
\* paused if and only if the character is.
ActivityAgrees == scene = "schedule" => S!ActivityAgrees

\* "Only one alarm can be active at any given time" (schedule.h), also when
\* a schedule that has one is loaded and sets another.
OneAlarm == scene = "schedule" => S!OneAlarm

\* An activity with an alarm comes to its end: as long as it is running the
\* alarm is not lost, and some time it rings.
AlarmEnds == S!AlarmEnds

-----------------------------------------------------------------------------
(* What texts of the repository say and the code does not do: violated by the *)
(* runs the README names.                                                     *)

\* "MUST be called after the end of every pathfinding search" (open_list.h): no
\* search starts with nodes of another one in its open list.
FreshSearch == scene = "tasks" => P!FreshSearch

\* "When starting a new schedule, its start method is called" (schedule.h).
StartedInUse == scene = "schedule" => S!StartedInUse
=============================================================================

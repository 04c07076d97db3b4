----------------------------- MODULE TimeEvents -----------------------------
(***************************************************************************)
(* Game time and the time event manager (src/event/date.cc, time_event.cc, *)
(* time_event_manager.cc) on top of the factories and listeners of         *)
(* EventFactory: the alarm clock that drives schedules, animation and game *)
(* scripts.                                                                *)
(*                                                                         *)
(* date::update advances the time second by second and raises a time event *)
(* at every multiple of Resolution.  Raising it pops the listeners that    *)
(* are due off the end of the manager's list one by one, executes their    *)
(* callbacks and then puts them back or deletes them.  A callback is a     *)
(* script that may call the event system again, so that between the pop    *)
(* and the return any operation of a factory may take place.               *)
(***************************************************************************)
EXTENDS EventFactory

CONSTANTS
  MaxTime,      \* bound: the last second of game time
  Resolution,   \* date::Resolution, seconds between two time events
  Times,        \* the alarm times scripts ask for
  AlarmTimes,   \* all the times an alarm can be set for
  Intervals,    \* the intervals of repeating alarms
  Repeats,      \* the repeat counts of repeating alarms, -1 for ever
  Unconnected,  \* the listeners that never get a callback attached
  Ops,          \* the operations scripts make use of
  SelfOps       \* those that callbacks apply to their own listener too

ASSUME TimeAssumption ==
  /\ MaxTime \in Nat
  /\ Resolution \in Nat \ {0}
  /\ AlarmTimes \subseteq Nat
  /\ Times \subseteq AlarmTimes
  /\ Intervals \subseteq Nat \ {0}
  /\ Repeats \subseteq Nat \cup {-1}
  /\ Unconnected \subseteq Listener

\* Adding intervals to an alarm time leads to an alarm time.
ASSUME AlarmTimesClosed ==
  \A t \in AlarmTimes, i \in Intervals, n \in 0 .. MaxTime :
    t <= n => t + i * ((n - t) \div i + 1) \in AlarmTimes

VARIABLES
  now,       \* date::Time
  time,      \* time_event::Time of each listener's event
  interval,  \* time_event::Interval, 0 for alarms that do not repeat
  raising,   \* whether time_event_manager::raise_event is being executed
  running    \* the listener whose callback is being executed, 0 if none

vars == <<factoryVars, now, time, interval, raising, running>>
timeVars == <<now, time, interval, raising, running>>

Init ==
  /\ FactoryInit
  /\ now = 0
  /\ time = [l \in Listener |-> 0]
  /\ interval = [l \in Listener |-> 0]
  /\ raising = FALSE
  /\ running = 0

\* Mutation: the list is sorted the other way round.
InsertPosAscending(q, l, at) ==
  CHOOSE p \in 1 .. Len(q) + 1 :
    /\ \A i \in 1 .. p - 1 : at[l] >= at[q[i]]
    /\ p <= Len(q) => at[l] < at[q[p]]

\* time_event_manager::add.  The list is sorted by descending alarm time; a
\* new listener goes behind those with the same time.
InsertPos(q, l, at) ==
  CHOOSE p \in 1 .. Len(q) + 1 :
    /\ \A i \in 1 .. p - 1 : at[l] <= at[q[i]]
    /\ p <= Len(q) => at[l] > at[q[p]]

Insert(q, l, at) == InsertAt(q, InsertPos(q, l, at), l)

\* Whether the listener at the end of the list matches the event raised.
DueListener(l) == queue # <<>> /\ l = Last(queue) /\ time[l] <= now

\* Mutation: the new alarm time may be the current time.
NextTimeNow(l) ==
  IF interval[l] = 0 \/ time[l] > now THEN time[l]
  ELSE time[l] + interval[l] * ((now - time[l]) \div interval[l])

\* The alarm time time_event::do_repeat sets: the first one after now that
\* is a number of intervals later.
NextTime(l) ==
  IF interval[l] = 0 \/ time[l] > now THEN time[l]
  ELSE time[l] + interval[l] * ((now - time[l]) \div interval[l] + 1)

-----------------------------------------------------------------------------
(***************************************************************************)
(* Scripts.  They run in the main loop, between two updates of the date,   *)
(* or in a callback.                                                       *)
(***************************************************************************)

\* A script can act, and op is an operation scripts make use of on the
\* listeners S.
Permitted(op, S) ==
  /\ op \in Ops
  /\ sweep.todo = {}
  /\ raising => running # 0
  /\ running \in S => op \in SelfOps

\* A callback asks for an alarm that is due already.
InPast(t) == running # 0 /\ t <= now

\* A new alarm (factory::register_event or factory::add), either one that
\* goes off once or one repeated at an interval (time_event::set_repeat).
RegisterEvent(f, l, t, i, r) ==
  /\ Permitted(IF InPast(t) THEN "register_past" ELSE "register", {})
  /\ time' = [time EXCEPT ![l] = t]
  /\ interval' = [interval EXCEPT ![l] = i]
  /\ AddListener(f, l, r, Insert(queue, l, time'))
  /\ UNCHANGED <<now, raising, running>>

Register ==
  \E f \in Factory, l \in Listener, t \in Times :
    \/ RegisterEvent(f, l, t, 0, 1)
    \/ \E i \in Intervals, r \in Repeats : RegisterEvent(f, l, t, i, r)

\* Nested pauses: levels beyond the width of the counter wrap around.
Pause(f) ==
  /\ Permitted(IF \A l \in Members(f) : paused[l] < PauseMod - 1
                 THEN "pause" ELSE "pause_overflow", Members(f))
  /\ fpaused[f] < PauseMod - 1 \/ "pause_overflow" \in Ops
  /\ PauseFactory(f)
  /\ UNCHANGED timeVars

Resume(f) ==
  /\ Permitted(IF fpaused[f] > 0 THEN "resume" ELSE "resume_unpaused", Members(f))
  /\ ResumeFactory(f)
  /\ UNCHANGED timeVars

Clear(f) ==
  /\ Permitted(IF \A l \in Members(f) : paused[l] = 0 THEN "clear" ELSE "clear_paused",
               Members(f))
  /\ ClearFactory(f)
  /\ UNCHANGED timeVars

Delete(f) ==
  /\ Permitted("delete", Members(f))
  /\ DeleteFactory(f)
  /\ UNCHANGED timeVars

\* Operations on a listener a script got from factory::add or get_listener.
PauseOne(l) ==
  /\ Permitted(IF paused[l] < PauseMod - 1 THEN "pause_one" ELSE "pause_overflow", {l})
  /\ owner[l] # NoFactory
  /\ PauseListener(l)
  /\ UNCHANGED <<fpaused, sweep, timeVars>>

ResumeOne(l) ==
  /\ Permitted("resume_one", {l})
  /\ owner[l] # NoFactory
  /\ ResumeListener(l, Insert(queue, l, time))
  /\ UNCHANGED <<fpaused, sweep, timeVars>>

Destroy(l) ==
  /\ Permitted("destroy", {l})
  /\ owner[l] # NoFactory
  /\ DestroyListener(l)
  /\ UNCHANGED timeVars

\* time_event::set_time, by which a callback arms its own alarm again.
SetTime(t) ==
  /\ Permitted(IF InPast(t) THEN "set_time_past" ELSE "set_time", {running})
  /\ running # 0 /\ life[running] = "live"
  /\ time' = [time EXCEPT ![running] = t]
  /\ repeat' = [repeat EXCEPT ![running] = 1]
  /\ UNCHANGED <<life, owner, paused, registered, fpaused, queue, sweep>>
  /\ UNCHANGED <<now, interval, raising, running>>

Script ==
  \/ Register
  \/ \E f \in Factory : Pause(f) \/ Resume(f) \/ Clear(f) \/ Delete(f)
  \/ \E l \in Listener : PauseOne(l) \/ ResumeOne(l) \/ Destroy(l)
  \/ \E t \in Times : SetTime(t)

\* The next round of a factory's loop over its listeners.
SweepStep ==
  /\ \E l \in Listener : SweepListener(l, Insert(queue, l, time))
  /\ UNCHANGED timeVars

-----------------------------------------------------------------------------
(***************************************************************************)
(* The main loop.                                                          *)
(***************************************************************************)

\* date::update, one second of game time
Tick ==
  /\ ~raising /\ sweep.todo = {}
  /\ now < MaxTime
  /\ now' = now + 1
  /\ raising' = (now' % Resolution = 0)
  /\ UNCHANGED <<factoryVars, time, interval, running>>

\* time_event_manager::raise_event, up to the callback: the listener is
\* popped (though still registered), its repeat count and its time adjusted.
Deliver(l) ==
  /\ raising /\ running = 0
  /\ DueListener(l)
  /\ repeat[l] # 0 /\ l \notin Unconnected
  /\ queue' = Front(queue)
  /\ repeat' = [repeat EXCEPT ![l] = IF @ > 0 THEN @ - 1 ELSE @]
  /\ time' = [time EXCEPT ![l] = NextTime(l)]
  /\ running' = l
  /\ UNCHANGED <<life, owner, paused, registered, fpaused, sweep, now, interval, raising>>

\* Mutation: the listener is popped off the list, but not deleted.
DiscardForgets(l) ==
  /\ raising /\ running = 0
  /\ DueListener(l)
  /\ repeat[l] = 0 \/ l \in Unconnected
  /\ queue' = Front(queue)
  /\ UNCHANGED <<life, owner, repeat, paused, registered, fpaused, sweep, timeVars>>

\* ... of a listener that is destroyed, or that has no callback
Discard(l) ==
  /\ raising /\ running = 0
  /\ DueListener(l)
  /\ repeat[l] = 0 \/ l \in Unconnected
  /\ DeleteListener(l, Front(queue))
  /\ UNCHANGED <<fpaused, sweep, timeVars>>

\* ... after the callback: the listener is put back into the list, but not
\* through manager::add, or it is deleted.
Return ==
  /\ running # 0 /\ sweep.todo = {}
  /\ running' = 0
  /\ \/ /\ repeat[running] # 0
        /\ queue' = Insert(queue, running, time)
        /\ UNCHANGED <<life, owner, repeat, paused, registered>>
     \/ /\ repeat[running] = 0
        /\ DeleteListener(running, queue)
  /\ UNCHANGED <<fpaused, sweep, now, time, interval, raising>>

\* Mutation: at most one listener goes off each time.
EndRaiseEarly ==
  /\ raising /\ running = 0
  /\ raising' = FALSE
  /\ UNCHANGED <<factoryVars, now, time, interval, running>>

\* ... and no listener is due any more.
EndRaise ==
  /\ raising /\ running = 0
  /\ ~ \E l \in Listener : DueListener(l)
  /\ raising' = FALSE
  /\ UNCHANGED <<factoryVars, now, time, interval, running>>

Raise == Return \/ EndRaise \/ \E l \in Listener : Deliver(l) \/ Discard(l)

Next == Script \/ SweepStep \/ Tick \/ Raise

Spec == Init /\ [][Next]_vars

\* The main loop calls date::update again and again, loops over listeners
\* end, and callbacks return.
Fairness == WF_vars(SweepStep) /\ SF_vars(Tick) /\ SF_vars(Raise)

FairSpec == Spec /\ Fairness

-----------------------------------------------------------------------------
(***************************************************************************)
(* Properties.                                                             *)
(***************************************************************************)

\* The state is well typed.
TypeOK ==
  /\ FactoryTypeOK
  /\ now \in Nat
  /\ time \in [Listener -> Nat]
  /\ interval \in [Listener -> Nat]
  /\ raising \in BOOLEAN
  /\ running \in Listener \cup {0}

\* Objects referenced from the manager's list, the callback under way or the
\* loop under way exist: no reference is left dangling when a listener is
\* deleted (listener::~listener relies on Registered for that).
NoDanglingListener ==
  /\ ToSet(queue) \subseteq Live
  /\ sweep.todo \subseteq Live
  /\ running # 0 => running \in Live

\* A listener that is not paused is in the manager's list exactly once, a
\* paused one not at all (listener::pause, listener::resume); the one whose
\* callback is being executed has been taken out.
ListedOnceUnlessPaused ==
  /\ \A i, j \in DOMAIN queue : queue[i] = queue[j] => i = j
  /\ \A l \in Live \ {running} : l \in ToSet(queue) <=> paused[l] = 0
  /\ running \notin ToSet(queue)

\* The list is sorted by descending alarm time, which raise_event relies on
\* when it only looks at the end of the list.
SortedByTime ==
  \A i, j \in DOMAIN queue : i < j => time[queue[i]] >= time[queue[j]]

\* Whoever is not owned by a factory any more is known to the event manager,
\* which will delete it: factory::clear leaks no listener.
NoOrphanedListener ==
  \A l \in Live : owner[l] = NoFactory => l = running \/ l \in ToSet(queue)

\* Whatever callbacks do to listeners and factories in the middle of the loop
\* of raise_event, its list is one to go on with: sorted, complete, without
\* dangling references, and no listener is lost to everyone.
AlarmsSound ==
  /\ TypeOK
  /\ NoDanglingListener
  /\ ListedOnceUnlessPaused
  /\ SortedByTime
  /\ NoOrphanedListener

\* The callback of a listener that is paused is not executed (listener.h on
\* listener::pause: "the event will neither be executed ...").
PausedNotDelivered ==
  [][running' \notin {running, 0} => paused[running'] = 0]_vars

\* When an event has been raised, no alarm that is not paused is overdue,
\* wherever in the list its listener was, and whatever the callbacks did.
NothingOverdue ==
  [][raising /\ ~raising' => \A l \in Live : paused[l] = 0 => time[l] > now]_vars

\* An event is delivered to those whose time has come, to all of them, and to
\* none that is paused.
DeliveredWhenDue == PausedNotDelivered /\ NothingOverdue

\* A callback arms an alarm that is due already, its own or a new one.
ArmsPast ==
  /\ running # 0 /\ running' = running
  /\ \E l \in Listener :
       /\ time'[l] <= now /\ repeat'[l] # 0
       /\ \/ l \in Live' \ Live
          \/ l = running /\ <<time'[l], repeat'[l]>> # <<time[l], repeat[l]>>

\* From some moment on, callbacks set alarms for the future only.
LooksAhead == <>[][~ ArmsPast]_vars

\* date::update returns: repeating alarms and callbacks that rearm alarms for
\* the future do not make it loop for ever.
RaiseEnds == LooksAhead => (raising ~> ~raising)

\* The last second at which a time event is raised.
LastRaise == MaxTime - (MaxTime % Resolution)

\* A listener in the manager's list is executed, deleted or paused once its
\* time has come, and it is not starved by others.
AlarmGoesOff ==
  LooksAhead =>
    \A l \in Listener :
      l \in ToSet(queue) /\ time[l] <= LastRaise /\ now < LastRaise
        ~> l \notin ToSet(queue)

\* A listener disposed of by factory::clear is deleted, once its alarm goes off.
ClearedIsDeleted ==
  LooksAhead =>
    \A l \in Listener :
      l \in Live /\ owner[l] = NoFactory /\ time[l] <= LastRaise /\ now < LastRaise
        ~> life[l] = "freed"

-----------------------------------------------------------------------------
\* What the event system promises (see AlarmClock): a listener is an alarm
\* from its registration until it has gone off for the last time.
Due == [l \in Listener |-> IF l \in Live /\ repeat[l] # 0 /\ l \notin Unconnected
                             THEN {time[l]} ELSE {}]

Muted == {l \in Live : paused[l] # 0}

AC == INSTANCE AlarmClock WITH
        Alarm <- Listener, Time <- AlarmTimes,
        clock <- now, ringing <- raising, due <- Due, muted <- Muted

ImplementsAlarmClock == AC!Spec

-----------------------------------------------------------------------------
\* Scripts that the event system is safe for: a callback neither pauses nor
\* deletes its own listener, no pause level overflows, and factories are not
\* cleared while one of their listeners is paused.
WellBehaved ==
  /\ SelfOps \cap {"pause", "pause_one", "pause_overflow", "delete"} = {}
  /\ Ops \cap {"pause_overflow", "clear_paused"} = {}

=============================================================================

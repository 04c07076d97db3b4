---------------------------- MODULE EventFactory ----------------------------
(***************************************************************************)
(* Event factories and the listeners they create (src/event/factory.cc,    *)
(* listener.cc and manager.h), without any particular event manager.       *)
(*                                                                         *)
(* A listener is a heap object referenced from two places: the factory     *)
(* that created it and the list of the event manager it is registered      *)
(* with.  The manager's list is `queue'.  Where a listener ends up when it *)
(* is added depends on the manager, so every operation that registers a    *)
(* listener takes the resulting list as its argument q.                    *)
(*                                                                         *)
(* Listeners are numbered in the order of their creation, which is the     *)
(* order in which a factory's vector lists them: the vector is the set of  *)
(* live listeners owned by the factory, visited by increasing number.      *)
(*                                                                         *)
(* A factory pauses, resumes or deletes its listeners in a loop.  `sweep'  *)
(* holds the loop that is under way and the listeners it has yet to visit; *)
(* the program does nothing else until that set is empty.                  *)
(***************************************************************************)
EXTENDS Integers, FiniteSets, Sequences, SequencesExt

CONSTANTS
  MaxListener,  \* bound: the number of listeners ever created
  Factory,      \* the factories
  NoFactory,    \* the NULL factory pointer
  PauseMod      \* pause levels are counted modulo PauseMod (2^16 in the code)

ASSUME FactoryAssumption ==
  /\ MaxListener \in Nat \ {0}
  /\ NoFactory \notin Factory
  /\ PauseMod \in Nat \ {0, 1}

Listener == 1 .. MaxListener

VARIABLES
  life,        \* whether the object exists: "unborn", "live" or "freed"
  owner,       \* listener::Factory
  repeat,      \* event::Repeat: executions left, -1 for ever, 0 destroyed
  paused,      \* listener::Paused
  registered,  \* listener::Registered
  fpaused,     \* factory::Paused
  queue,       \* the listeners in the event manager, first to last
  sweep        \* the loop over a factory's listeners under way, if any

factoryVars == <<life, owner, repeat, paused, registered, fpaused, queue, sweep>>

NoSweep == [op |-> "none", todo |-> {}]

Sweep(op, S) == IF S = {} THEN NoSweep ELSE [op |-> op, todo |-> S]

\* The contents of factory::Listeners.
Members(f) == {l \in Listener : owner[l] = f}

Live == {l \in Listener : life[l] = "live"}

\* Listeners are created in the order of their numbers.
NextListener(l) == l \in Listener /\ \A k \in Listener : life[k] = "unborn" <=> k >= l

FactoryInit ==
  /\ life = [l \in Listener |-> "unborn"]
  /\ owner = [l \in Listener |-> NoFactory]
  /\ repeat = [l \in Listener |-> 0]
  /\ paused = [l \in Listener |-> 0]
  /\ registered = [l \in Listener |-> FALSE]
  /\ fpaused = [f \in Factory |-> 0]
  /\ queue = <<>>
  /\ sweep = NoSweep

-----------------------------------------------------------------------------
(***************************************************************************)
(* One listener.                                                           *)
(***************************************************************************)

\* manager::add
ManagerAdd(l, q) ==
  /\ registered' = [registered EXCEPT ![l] = TRUE]
  /\ queue' = q

\* manager::remove
ManagerRemove(l) ==
  /\ registered' = [registered EXCEPT ![l] = FALSE]
  /\ queue' = RemoveFirst(queue, l)

\* Mutation: the listener is removed at the second pause only.
PauseListenerLate(l) ==
  /\ IF paused[l] = 1 THEN ManagerRemove(l) ELSE UNCHANGED <<registered, queue>>
  /\ paused' = [paused EXCEPT ![l] = (@ + 1) % PauseMod]
  /\ UNCHANGED <<life, owner, repeat>>

\* listener::pause
PauseListener(l) ==
  /\ IF paused[l] = 0 THEN ManagerRemove(l) ELSE UNCHANGED <<registered, queue>>
  /\ paused' = [paused EXCEPT ![l] = (@ + 1) % PauseMod]
  /\ UNCHANGED <<life, owner, repeat>>

\* listener::resume: a listener that was not paused is registered again if
\* it is not registered.
ResumeListener(l, q) ==
  /\ IF paused[l] = 1 \/ (paused[l] = 0 /\ ~registered[l])
       THEN ManagerAdd(l, q)
       ELSE UNCHANGED <<registered, queue>>
  /\ paused' = [paused EXCEPT ![l] = IF @ = 0 THEN 0 ELSE @ - 1]
  /\ UNCHANGED <<life, owner, repeat>>

\* Mutation: a listener that is deleted stays in the list.
DeleteListenerStays(l, q) ==
  /\ life' = [life EXCEPT ![l] = "freed"]
  /\ owner' = [owner EXCEPT ![l] = NoFactory]
  /\ repeat' = [repeat EXCEPT ![l] = 0]
  /\ registered' = [registered EXCEPT ![l] = FALSE]
  /\ queue' = q
  /\ UNCHANGED paused

\* listener::~listener, with q the manager's list when it is called.
DeleteListener(l, q) ==
  /\ life' = [life EXCEPT ![l] = "freed"]
  /\ owner' = [owner EXCEPT ![l] = NoFactory]
  /\ repeat' = [repeat EXCEPT ![l] = 0]
  /\ registered' = [registered EXCEPT ![l] = FALSE]
  /\ queue' = IF registered[l] THEN RemoveFirst(q, l) ELSE q
  /\ UNCHANGED paused

\* listener::destroy
DestroyListener(l) ==
  /\ l \in Live
  /\ repeat' = [repeat EXCEPT ![l] = 0]
  /\ UNCHANGED <<life, owner, paused, registered, fpaused, queue, sweep>>

-----------------------------------------------------------------------------
(***************************************************************************)
(* A factory and its listeners.                                            *)
(***************************************************************************)

\* factory::add, for an event that is to be executed r times.  The new
\* listener takes over the pause level of the factory; only if that is zero
\* it is registered.
AddListener(f, l, r, q) ==
  /\ NextListener(l)
  /\ life' = [life EXCEPT ![l] = "live"]
  /\ owner' = [owner EXCEPT ![l] = f]
  /\ repeat' = [repeat EXCEPT ![l] = r]
  /\ paused' = [paused EXCEPT ![l] = fpaused[f]]
  /\ IF fpaused[f] = 0 THEN ManagerAdd(l, q) ELSE UNCHANGED <<registered, queue>>
  /\ UNCHANGED <<fpaused, sweep>>

\* factory::pause, up to its loop
PauseFactory(f) ==
  /\ fpaused' = [fpaused EXCEPT ![f] = (@ + 1) % PauseMod]
  /\ sweep' = Sweep("pause", Members(f))
  /\ UNCHANGED <<life, owner, repeat, paused, registered, queue>>

\* factory::resume, up to its loop: the level of a factory that is not
\* paused wraps around.
ResumeFactory(f) ==
  /\ fpaused' = [fpaused EXCEPT ![f] = (@ - 1) % PauseMod]
  /\ sweep' = Sweep("resume", Members(f))
  /\ UNCHANGED <<life, owner, repeat, paused, registered, queue>>

\* Mutation: factory::clear deletes the listeners at once.
ClearFactoryAtOnce(f) ==
  /\ fpaused' = [fpaused EXCEPT ![f] = 0]
  /\ sweep' = Sweep("delete", Members(f))
  /\ UNCHANGED <<life, owner, repeat, paused, registered, queue>>

\* factory::clear: the listeners are not deleted, they are marked for
\* deletion by the event manager.
ClearFactory(f) ==
  /\ fpaused' = [fpaused EXCEPT ![f] = 0]
  /\ repeat' = [l \in Listener |-> IF owner[l] = f THEN 0 ELSE repeat[l]]
  /\ owner' = [l \in Listener |-> IF owner[l] = f THEN NoFactory ELSE owner[l]]
  /\ UNCHANGED <<life, paused, registered, queue, sweep>>

\* factory::~factory, up to its loop.  The name f stands for the factory
\* its owner constructs afterwards.
DeleteFactory(f) ==
  /\ fpaused' = [fpaused EXCEPT ![f] = 0]
  /\ sweep' = Sweep("delete", Members(f))
  /\ UNCHANGED <<life, owner, repeat, paused, registered, queue>>

\* One round of the loop under way, for listener l, the first one left;
\* q is the manager's list with l added to it.
SweepListener(l, q) ==
  /\ l \in sweep.todo /\ \A k \in sweep.todo : l <= k
  /\ \/ sweep.op = "pause"  /\ PauseListener(l)
     \/ sweep.op = "resume" /\ ResumeListener(l, q)
     \/ sweep.op = "delete" /\ DeleteListener(l, queue)
  /\ sweep' = Sweep(sweep.op, sweep.todo \ {l})
  /\ UNCHANGED fpaused

-----------------------------------------------------------------------------
FactoryTypeOK ==
  /\ life \in [Listener -> {"unborn", "live", "freed"}]
  /\ owner \in [Listener -> Factory \cup {NoFactory}]
  /\ repeat \in [Listener -> Int]
  /\ paused \in [Listener -> 0 .. PauseMod - 1]
  /\ registered \in [Listener -> BOOLEAN]
  /\ fpaused \in [Factory -> 0 .. PauseMod - 1]
  /\ queue \in Seq(Listener)
  /\ sweep \in [op : {"none", "pause", "resume", "delete"}, todo : SUBSET Listener]

=============================================================================

----------------------------- MODULE ListEvents -----------------------------
(***************************************************************************)
(* The event managers that keep their listeners in a plain list: audio and *)
(* move events, and each list of the quest event manager                   *)
(* (src/audio/audio_event_manager.cc, src/world/move_event_manager.cc,     *)
(* src/rpg/quest_event_manager.cc).                                        *)
(*                                                                         *)
(* Raising an event walks the list with an iterator that stays in the list *)
(* while callbacks are executed: it deletes the destroyed listeners it     *)
(* meets and executes the ones that match.  A callback may use the event   *)
(* system, up to raising an event itself (the callback of a quest event    *)
(* that completes a part of a quest does), so the walks form a stack.      *)
(***************************************************************************)
EXTENDS EventFactory

CONSTANTS
  Event,        \* the events
  Matching,     \* for each listener, the events its own event equals
  Repeats,      \* the repeat counts of new listeners, -1 for ever
  Unconnected,  \* the listeners that never get a callback attached
  MaxDepth,     \* bound: the nesting of raise_event
  Ops,          \* the operations scripts make use of
  SelfOps,      \* those that callbacks apply to their own listener too
  OuterOps      \* those that callbacks apply to listeners whose callbacks
                \* they are called from

ASSUME ListAssumption ==
  /\ Matching \in [Listener -> SUBSET Event]
  /\ Repeats \subseteq Int
  /\ Unconnected \subseteq Listener
  /\ MaxDepth \in Nat \ {0}

(***************************************************************************)
(* A walk: the event raised, the listener the iterator points to (0 at the *)
(* end of the list), whether its callback is being executed, and whether   *)
(* the list node below the iterator has been erased.  The other fields     *)
(* record what the walk has to do, for the properties: the listeners to be *)
(* executed and those to be deleted when it began, as far as they have not *)
(* been dealt with by anyone since.                                        *)
(***************************************************************************)
VARIABLE stack

vars == <<factoryVars, stack>>

Walk == [event : Event, at : Listener \cup {0}, called : BOOLEAN, erased : BOOLEAN,
         execute : SUBSET Listener, delete : SUBSET Listener]

Init == FactoryInit /\ stack = <<>>

Top == Last(stack)

\* The listeners whose callbacks are being executed.
Running == {stack[i].at : i \in {j \in DOMAIN stack : stack[j].called}}

\* ... and those of them that wait for a nested raise_event to return.
Outer == {stack[i].at : i \in 1 .. Len(stack) - 1}

\* The element after l in list q, 0 at its end.
Successor(q, l) ==
  IF l = Last(q) THEN 0 ELSE q[1 + CHOOSE i \in DOMAIN q : q[i] = l]

\* What an operation on the list and the listeners means to the walks under
\* way: erasing a list node invalidates the iterators that point to it.
Touched(w) ==
  [w EXCEPT !.erased = @ \/ (w.at \in ToSet(queue) /\ w.at \notin ToSet(queue')),
            !.execute = {l \in @ : l \in ToSet(queue') /\ repeat'[l] # 0},
            !.delete = @ \cap ToSet(queue')]

TouchedStack == [i \in DOMAIN stack |-> Touched(stack[i])]

\* No walk goes on.
Halt == stack' = TouchedStack

\* The walk on top of the stack goes on as w.
Proceed(w) == stack' = [TouchedStack EXCEPT ![Len(stack)] = w]

-----------------------------------------------------------------------------
(***************************************************************************)
(* Scripts, in the main loop or in a callback.                             *)
(***************************************************************************)

Permitted(op, S) ==
  /\ op \in Ops
  /\ sweep.todo = {}
  /\ stack # <<>> => Top.called
  /\ S \cap Running # {} => op \in SelfOps
  /\ S \cap Outer # {} => op \in OuterOps

Register ==
  /\ Permitted("register", {})
  /\ \E f \in Factory, l \in Listener, r \in Repeats : AddListener(f, l, r, Append(queue, l))
  /\ Halt

Pause(f) ==
  /\ Permitted(IF \A l \in Members(f) : paused[l] < PauseMod - 1
                 THEN "pause" ELSE "pause_overflow", Members(f))
  /\ fpaused[f] < PauseMod - 1 \/ "pause_overflow" \in Ops
  /\ PauseFactory(f)
  /\ Halt

Resume(f) ==
  /\ Permitted(IF fpaused[f] > 0 THEN "resume" ELSE "resume_unpaused", Members(f))
  /\ ResumeFactory(f)
  /\ Halt

Clear(f) ==
  /\ Permitted(IF \A l \in Members(f) : paused[l] = 0 THEN "clear" ELSE "clear_paused",
               Members(f))
  /\ ClearFactory(f)
  /\ Halt

Delete(f) ==
  /\ Permitted("delete", Members(f))
  /\ DeleteFactory(f)
  /\ Halt

Destroy(l) ==
  /\ Permitted("destroy", {l})
  /\ owner[l] # NoFactory
  /\ DestroyListener(l)
  /\ Halt

\* Raising event e leaves the repeat counts of the listeners whose callbacks
\* are being executed above zero.
SparesRunning(e) ==
  \A l \in Running : repeat[l] # 0 /\ (e \in Matching[l] => repeat[l] < 0)

\* manager::raise_event, up to the first listener.  A callback that raises
\* an event may have been the last one of its listener, or may cause it.
Raise(e) ==
  /\ Permitted(IF SparesRunning(e) THEN "raise" ELSE "raise_spent", {})
  /\ Len(stack) < MaxDepth
  /\ stack' = Append(stack, [event   |-> e,
                             at      |-> IF queue = <<>> THEN 0 ELSE Head(queue),
                             called  |-> FALSE,
                             erased  |-> FALSE,
                             execute |-> {l \in ToSet(queue) : e \in Matching[l] /\ repeat[l] # 0},
                             delete  |-> {l \in ToSet(queue) : repeat[l] = 0}])
  /\ UNCHANGED factoryVars

Script ==
  \/ Register
  \/ \E f \in Factory : Pause(f) \/ Resume(f) \/ Clear(f) \/ Delete(f)
  \/ \E l \in Listener : Destroy(l)
  \/ \E e \in Event : Raise(e)

SweepStep ==
  /\ \E l \in Listener : SweepListener(l, Append(queue, l))
  /\ Halt

-----------------------------------------------------------------------------
(***************************************************************************)
(* The walk through the list.                                              *)
(***************************************************************************)

\* The innermost walk has come to listener l.
At(l) == stack # <<>> /\ ~Top.called /\ Top.at = l

\* Mutation: the iterator is advanced although erase has done so.
DeleteDestroyedSkips(l) ==
  /\ At(l) /\ repeat[l] = 0
  /\ DeleteListener(l, RemoveFirst(queue, l))
  /\ UNCHANGED <<fpaused, sweep>>
  /\ LET next == Successor(queue, l) IN
     Proceed([Top EXCEPT !.at = IF next = 0 THEN 0 ELSE Successor(queue, next),
                         !.delete = @ \ {l}])

\* A destroyed listener is erased from the list and deleted.
DeleteDestroyed(l) ==
  /\ At(l) /\ repeat[l] = 0
  /\ DeleteListener(l, RemoveFirst(queue, l))
  /\ UNCHANGED <<fpaused, sweep>>
  /\ Proceed([Top EXCEPT !.at = Successor(queue, l), !.delete = @ \ {l}])

\* One that does not match is passed over.
Skip(l) ==
  /\ At(l) /\ repeat[l] # 0
  /\ Top.event \notin Matching[l]
  /\ UNCHANGED factoryVars
  /\ Proceed([Top EXCEPT !.at = Successor(queue, l)])

\* One that matches is executed (listener_cxx::raise_event,
\* listener_python::raise_event) ...
Execute(l) ==
  /\ At(l) /\ repeat[l] # 0
  /\ Top.event \in Matching[l] /\ l \notin Unconnected
  /\ repeat' = [repeat EXCEPT ![l] = IF @ > 0 THEN @ - 1 ELSE @]
  /\ UNCHANGED <<life, owner, paused, registered, fpaused, queue, sweep>>
  /\ Proceed([Top EXCEPT !.called = TRUE, !.execute = @ \ {l}])

\* ... or destroyed, if it has no callback.
DestroyUnconnected(l) ==
  /\ At(l) /\ repeat[l] # 0
  /\ Top.event \in Matching[l] /\ l \in Unconnected
  /\ repeat' = [repeat EXCEPT ![l] = 0]
  /\ UNCHANGED <<life, owner, paused, registered, fpaused, queue, sweep>>
  /\ Proceed([Top EXCEPT !.at = Successor(queue, l), !.execute = @ \ {l}])

\* Mutation: the iterator is not advanced after a callback.
ReturnStays ==
  /\ stack # <<>> /\ Top.called /\ sweep.todo = {}
  /\ ~Top.erased
  /\ UNCHANGED factoryVars
  /\ Proceed([Top EXCEPT !.called = FALSE])

\* The callback returns and the iterator is advanced.  Once its node has
\* been erased that is undefined, and the model goes no further.
Return ==
  /\ stack # <<>> /\ Top.called /\ sweep.todo = {}
  /\ ~Top.erased
  /\ UNCHANGED factoryVars
  /\ Proceed([Top EXCEPT !.called = FALSE, !.at = Successor(queue, Top.at)])

EndRaise ==
  /\ At(0)
  /\ stack' = Front(stack)
  /\ UNCHANGED factoryVars

WalkStep ==
  \/ \E l \in Listener : DeleteDestroyed(l) \/ Skip(l) \/ Execute(l) \/ DestroyUnconnected(l)
  \/ Return
  \/ EndRaise

Next == Script \/ SweepStep \/ WalkStep

Spec == Init /\ [][Next]_vars

\* Loops over listeners end, and callbacks return, however many events they
\* raise before.
Fairness ==
  /\ WF_vars(SweepStep)
  /\ \A n \in 1 .. MaxDepth : SF_vars(Len(stack) = n /\ WalkStep)

FairSpec == Spec /\ Fairness

-----------------------------------------------------------------------------
(***************************************************************************)
(* Properties.                                                             *)
(***************************************************************************)

\* The state is well typed.
TypeOK ==
  /\ FactoryTypeOK
  /\ stack \in Seq(Walk)

\* Listeners referenced from the list, from a walk or from the loop of a
\* factory exist, those whose callback is being executed in particular
\* (factory::clear takes care of them: "we might be in a callback triggered
\* by one of those listeners").
NoDanglingListener ==
  /\ ToSet(queue) \subseteq Live
  /\ sweep.todo \subseteq Live
  /\ \A i \in DOMAIN stack : stack[i].at # 0 => stack[i].at \in Live

\* No walk is left with an iterator whose list node was erased.
NoIteratorInvalidated == \A i \in DOMAIN stack : ~stack[i].erased

\* The manager lists a listener exactly once unless it is paused.
ListedOnceUnlessPaused ==
  /\ \A i, j \in DOMAIN queue : queue[i] = queue[j] => i = j
  /\ \A l \in Live : l \in ToSet(queue) <=> paused[l] = 0

\* A listener that no factory owns any more will be met by the next walk.
NoOrphanedListener ==
  \A l \in Live : owner[l] = NoFactory => l \in ToSet(queue)

\* Whatever callbacks raise, add and destroy in the middle of a walk, all
\* walks under way can go on, and nobody is listed twice or lost.
WalksSound ==
  /\ TypeOK
  /\ NoDanglingListener
  /\ NoIteratorInvalidated
  /\ ListedOnceUnlessPaused
  /\ NoOrphanedListener

\* When a walk ends, every listener that was listed for the event when it
\* was raised has been executed, unless it was taken off the list or
\* destroyed meanwhile: none is skipped because others come and go.
NobodySkipped ==
  \A i \in DOMAIN stack : stack[i].at = 0 => stack[i].execute = {}

\* ... and every listener that was destroyed then has been deleted
\* (factory::clear: "let the event handlers clear them up the next time an
\* event is raised").
DestroyedIsDeleted ==
  \A i \in DOMAIN stack : stack[i].at = 0 => stack[i].delete = {}

\* A walk that ends has executed and deleted whom it had to.
WalkComplete == NobodySkipped /\ DestroyedIsDeleted

\* A listener is appended to the list again.
Reappends == \E l \in Live : l \in ToSet(queue') \ ToSet(queue)

\* Raising an event returns, unless callbacks pause and resume listeners for
\* ever, each of which then is in front of the walk once more.
RaiseEnds == <>[][~ Reappends]_vars => (stack # <<>> ~> stack = <<>>)

-----------------------------------------------------------------------------
\* Scripts that the walks are safe for: a callback neither pauses nor deletes
\* its own listener and spares those whose callbacks it was called from, it
\* raises no event that may use them up, no pause level overflows, and
\* factories are not cleared while one of their listeners is paused.
WellBehaved ==
  /\ Ops \cap {"pause_overflow", "clear_paused", "raise_spent"} = {}
  /\ SelfOps \cap {"pause", "delete"} = {}
  /\ OuterOps \cap {"clear", "destroy"} = {}

=============================================================================

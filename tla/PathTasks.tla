----------------------------- MODULE PathTasks -----------------------------
(***************************************************************************)
(* The pool of path finding tasks (src/world/pathfinding_manager.cc). A    *)
(* task first searches a path, a few hundred nodes per frame, then moves   *)
(* its character along it, searches again if something is in the way, and  *)
(* finally tells the script that started it and frees its slot.            *)
(*                                                                         *)
(* Where characters are and what is in their way is left open: a search    *)
(* finds a path of some length or none, and a character gets on, is stuck, *)
(* or falls down. Scripts hold the id of a task and use it later; Careless *)
(* names the things they do that the manager does not cope with.           *)
(***************************************************************************)
EXTENDS Integers, FiniteSets

CONSTANTS
  Character,    \* the characters that can be moved
  None,         \* no character, no callback
  MaxTasks,     \* the number of slots (MAX_TASKS)
  Frames,       \* how many frames searches may take, 0 if the goal is off the map
  Patience,     \* the frames a character is stuck before it looks for another way
  MaxBlocked,   \* how often it looks for another way
  MaxPath,      \* the most nodes of a path
  Careless      \* what scripts do: "stale_id", "restart"

PathAssumption ==
  /\ MaxTasks \in Nat \ {0}
  /\ Frames \subseteq Nat /\ Patience \in Nat \ {0, 1}
  /\ MaxBlocked \in Nat /\ MaxPath \in Nat
  /\ None \notin Character

VARIABLES
  pf,       \* the manager: its tasks, locked slots, characters, highest slot
  at,       \* the slot that update has reached, NoTask between two updates
  calling,  \* whether update executes the callback of that slot
  hold      \* the task every character's script holds the id of

vars == <<pf, at, calling, hold>>

Id == 0 .. MaxTasks - 1
NoTask == -1

Phase == {"pathfinding", "moving", "finished", "failed"}

Task == [chr     : Character \cup {None},
         phase   : Phase,
         paused  : BOOLEAN,
         left    : Nat,      \* frames left to search, or to be stuck (iterations)
         nodes   : Nat,      \* nodes of the path that are still ahead
         blocked : Nat,      \* how often the way was blocked (numBlocked)
         cb      : Character \cup {None},    \* whose script is to be told
         dirty   : BOOLEAN]  \* the open list has nodes of an abandoned search

Manager == [task : [Id -> Task], locked : SUBSET Id, chars : SUBSET Character,
            highest : Id]

FreeTask == [chr |-> None, phase |-> "failed", paused |-> TRUE, left |-> 0,
             nodes |-> 0, blocked |-> 0, cb |-> None, dirty |-> FALSE]

Init ==
  /\ pf = [task |-> [i \in Id |-> FreeTask], locked |-> {}, chars |-> {}, highest |-> 0]
  /\ at = NoTask
  /\ calling = FALSE
  /\ hold = [c \in Character |-> NoTask]

-----------------------------------------------------------------------------
(* The operations of the manager; m is its state. *)

Free (m) == Id \ m.locked

\* Mutation: the highest slot in use counts as free.
FindFreeTaskHighest (m) == m.highest

FindFreeTask (m) == CHOOSE i \in Free (m) : \A j \in Free (m) : i <= j

\* What add_task_ll makes of the slot. The search gets a start node, but
\* its open list is not emptied before.
NewTask (m, id, c, n) ==
  [chr |-> c, phase |-> "pathfinding", paused |-> FALSE, left |-> n,
   nodes |-> 0, blocked |-> 0, cb |-> None, dirty |-> m.task[id].dirty]

\* add_task_ll; n is what pathfinding::init returns, 0 for a goal off the map.
AddTask (m, id, c, n) ==
  IF c \in m.chars THEN m
  ELSE [m EXCEPT !.task[id] = NewTask (m, id, c, n), !.locked = @ \cup {id},
                 !.chars = @ \cup {c}, !.highest = IF id > @ THEN id ELSE @]

\* What add_task returns: the id, or -1 also for a task that will fail.
AddedId (m, c, n) ==
  IF Free (m) # {} /\ c \notin m.chars /\ n > 0 THEN FindFreeTask (m) ELSE NoTask

Added (m, c, n) == IF Free (m) = {} THEN m ELSE AddTask (m, FindFreeTask (m), c, n)

\* The last slot of a set.
LastOf (ids) == CHOOSE i \in ids : \A j \in ids : j <= i

\* The highest slot in use once id is not: the next one below that is locked.
Lowered (m, id) ==
  LET below == {i \in m.locked : i < id}
  IN  IF id # m.highest \/ below = {} THEN m.highest
      ELSE LastOf (below)

\* What is left in a slot that is not locked: the callback, and the search.
\* The rest of it is not looked at any more.
Freed (t) ==
  [FreeTask EXCEPT !.cb = t.cb,
                   !.dirty = t.dirty \/ (t.phase = "pathfinding" /\ t.left > 0)]

\* delete_task. A search under way is just abandoned.
DeleteTask (m, id) ==
  IF id \notin m.locked THEN m
  ELSE [m EXCEPT !.task[id] = Freed (@),
                 !.locked = @ \ {id},
                 !.chars = @ \ {m.task[id].chr},
                 !.highest = Lowered (m, id)]

-----------------------------------------------------------------------------
(* Scripts, which run between two updates or as a callback of one. *)

InScript == at = NoTask \/ calling

\* The script of c knows that its task is no more, or should know.
Forgotten (c) ==
  {[hold EXCEPT ![c] = NoTask]} \cup IF "stale_id" \in Careless THEN {hold} ELSE {}

\* A script lets a character go somewhere and sets a callback.
Start (c, n) ==
  /\ InScript /\ hold[c] = NoTask
  /\ LET id == AddedId (pf, c, n)
         m  == Added (pf, c, n)
     IN  /\ pf' = IF id = NoTask THEN m ELSE [m EXCEPT !.task[id].cb = c]
         /\ hold' = [hold EXCEPT ![c] = id]
  /\ UNCHANGED <<at, calling>>

\* ... and does not want to hear of it.
Send (c, n) ==
  /\ InScript
  /\ pf' = Added (pf, c, n)
  /\ UNCHANGED <<at, calling, hold>>

Pause (c) ==
  /\ InScript /\ hold[c] # NoTask
  /\ pf' = [pf EXCEPT !.task[hold[c]].paused = TRUE]
  /\ UNCHANGED <<at, calling, hold>>

Resume (c) ==
  /\ InScript /\ hold[c] # NoTask
  /\ pf' = [pf EXCEPT !.task[hold[c]].paused = FALSE]
  /\ UNCHANGED <<at, calling, hold>>

Delete (c) ==
  /\ InScript /\ hold[c] # NoTask
  /\ pf' = DeleteTask (pf, hold[c])
  /\ hold' \in Forgotten (c)
  /\ UNCHANGED <<at, calling>>

Script ==
  \E c \in Character :
    \/ \E n \in Frames : Start (c, n) \/ Send (c, n)
    \/ Pause (c) \/ Resume (c) \/ Delete (c)

-----------------------------------------------------------------------------
(***************************************************************************)
(* One frame (pathfinding_manager::update): slot after slot, as far as the *)
(* highest slot in use, which callbacks may change.                        *)
(***************************************************************************)
NextSlot (m) == IF at + 1 <= m.highest THEN at + 1 ELSE NoTask

BeginFrame ==
  /\ at = NoTask
  /\ at' = 0
  /\ UNCHANGED <<pf, calling, hold>>

\* Update has reached a task that is in phase p and not paused.
Active (p) ==
  /\ at # NoTask /\ ~ calling
  /\ at \in pf.locked /\ ~ pf.task[at].paused
  /\ pf.task[at].phase = p

\* The task is changed into t, and update goes on.
Step (t) ==
  /\ pf' = [pf EXCEPT !.task[at] = t]
  /\ at' = NextSlot (pf)
  /\ UNCHANGED <<calling, hold>>

Cur == pf.task[at]

\* The task is over; what is left of its path is not looked at any more.
Over (p) == [Cur EXCEPT !.phase = p, !.left = 0, !.nodes = 0, !.blocked = 0]

SkipSlot ==
  /\ at # NoTask /\ ~ calling
  /\ at \notin pf.locked \/ Cur.paused
  /\ at' = NextSlot (pf)
  /\ UNCHANGED <<pf, calling, hold>>

\* find_path found a path with k more nodes, possibly from where another
\* search had started, and reset the search.
Found (k) ==
  /\ Active ("pathfinding")
  /\ Cur.left > 0 \/ Cur.dirty
  /\ Cur.nodes + k <= MaxPath
  /\ Step ([Cur EXCEPT !.phase = "moving", !.left = Patience - 1,
                       !.nodes = @ + k, !.dirty = FALSE])

\* Mutation: a search that finds nothing goes on for ever.
NotFoundEver ==
  /\ Active ("pathfinding")
  /\ Step (Cur)

\* It has not found one, yet or in the time it had.
NotFound ==
  /\ Active ("pathfinding")
  /\ IF Cur.left > 1 THEN Step ([Cur EXCEPT !.left = @ - 1])
     ELSE Step ([Over ("failed") EXCEPT !.dirty = FALSE])

\* move_chr: the end of the path is reached,
Arrived ==
  /\ Active ("moving") /\ Cur.nodes = 0
  /\ Step (Over ("finished"))

\* or the character turns to the next node,
Turn ==
  /\ Active ("moving") /\ Cur.nodes > 0
  /\ Step (Cur)

\* or it is on its way, and reaches a node (r = 1) or does not (r = 0),
Walk (r) ==
  /\ Active ("moving") /\ Cur.nodes > 0
  /\ Step ([Cur EXCEPT !.nodes = @ - r, !.left = Patience])

Advance (id) == id = at /\ Walk (1)

\* but may be stuck for some frames,
Stuck (r) ==
  /\ Active ("moving") /\ Cur.nodes > 0
  /\ Cur.left > 1
  /\ Step ([Cur EXCEPT !.nodes = @ - r, !.left = @ - 1])

\* or for too many: it goes around to the first node ahead that is free, if
\* there are nodes behind that one,
Detour (r, n) ==
  /\ Active ("moving") /\ Cur.nodes > 0
  /\ Cur.left <= 1 /\ Cur.blocked < MaxBlocked
  /\ \E k \in 1 .. Cur.nodes - r :
       Step ([Cur EXCEPT !.phase = "pathfinding", !.left = n,
                         !.nodes = k, !.blocked = @ + 1])

\* or gives up,
Blocked ==
  /\ Active ("moving") /\ Cur.nodes > 0
  /\ Cur.left <= 1
  /\ Step (Over ("failed"))

\* or it has fallen down and looks for a completely new path.
Fall (n) ==
  /\ Active ("moving") /\ Cur.nodes > 0
  /\ Step ([Cur EXCEPT !.phase = "pathfinding", !.left = n, !.nodes = 0])

\* A task that is finished or has failed tells its script,
Call ==
  /\ Active ("finished") \/ Active ("failed")
  /\ Cur.cb # None
  /\ calling' = TRUE
  /\ hold' \in Forgotten (Cur.cb)
  /\ UNCHANGED <<pf, at>>

\* Mutation: a task that has failed is deleted without notice.
EndSilently ==
  /\ Active ("finished") \/ Active ("failed")
  /\ Cur.phase = "failed" \/ Cur.cb = None
  /\ pf' = DeleteTask (pf, at)
  /\ at' = NextSlot (pf')
  /\ UNCHANGED <<calling, hold>>

\* if there is a callback, and is deleted,
End ==
  /\ Active ("finished") \/ Active ("failed")
  /\ Cur.cb = None
  /\ pf' = DeleteTask (pf, at)
  /\ at' = NextSlot (pf')
  /\ UNCHANGED <<calling, hold>>

\* which happens after the callback if there is one.
Return ==
  /\ calling
  /\ pf' = DeleteTask (pf, at)
  /\ at' = NextSlot (pf')
  /\ calling' = FALSE
  /\ UNCHANGED hold

Update ==
  \/ BeginFrame \/ SkipSlot
  \/ \E k \in 0 .. MaxPath : Found (k)
  \/ NotFound
  \/ Arrived \/ Turn \/ Blocked
  \/ \E r \in 0 .. 1 : Walk (r) \/ Stuck (r)
  \/ \E r \in 0 .. 1, n \in Frames \ {0} : Detour (r, n)
  \/ \E n \in Frames \ {0} : Fall (n)
  \/ Call \/ End \/ Return

-----------------------------------------------------------------------------
(***************************************************************************)
(* put_state, clear and get_state, of a game that is saved and loaded.     *)
(* Callbacks and what a search has found so far are not saved. The scripts *)
(* start anew, and those of schedules (method start) may add a task while  *)
(* the map is loaded, before the tasks are.                                *)
(***************************************************************************)
Cleared == [pf EXCEPT !.task = [i \in Id |-> [Freed (pf.task[i]) EXCEPT !.cb = None]],
                      !.locked = {}, !.chars = {}, !.highest = 0]

\* get_state, from what put_state wrote of old. A task is not added if the
\* character has one by now, but nobody looks: the slot is changed anyway.
Restored (m, old, n) ==
  LET refused == {i \in old.locked : old.task[i].chr \in m.chars}
      added (i) == IF i \in refused THEN m.task[i]
                   ELSE NewTask (m, i, old.task[i].chr,
                                 IF old.task[i].left = 0 THEN 0 ELSE n)
  IN  [task |-> [i \in Id |->
                   IF i \in old.locked
                   THEN [added (i) EXCEPT
                           !.phase  = old.task[i].phase,
                           !.paused = old.task[i].paused,
                           !.nodes  = @ + old.task[i].nodes,
                           !.dirty  = @ \/ old.task[i].phase # "pathfinding"]
                   ELSE m.task[i]],
       locked |-> m.locked \cup (old.locked \ refused),
       chars |-> m.chars \cup {old.task[i].chr : i \in old.locked},
       highest |-> IF old.locked = {} THEN m.highest ELSE LastOf (old.locked)]

\* The manager when its tasks are loaded.
BeforeLoad (n) ==
  {Cleared} \cup
  IF "restart" \in Careless THEN {Added (Cleared, c, n) : c \in Character} ELSE {}

Reload (n) ==
  /\ at = NoTask
  /\ \E m \in BeforeLoad (n) : pf' = Restored (m, pf, n)
  /\ hold' = [c \in Character |-> NoTask]
  /\ UNCHANGED <<at, calling>>

\* set_active_map: the characters and scripts of the map that is left are
\* no more.
LeaveMap ==
  /\ at = NoTask
  /\ pf' = Cleared
  /\ hold' = [c \in Character |-> NoTask]
  /\ UNCHANGED <<at, calling>>

Next == Script \/ Update \/ LeaveMap \/ \E n \in Frames \ {0} : Reload (n)

Spec == Init /\ [][Next]_vars

-----------------------------------------------------------------------------
(* Properties. *)

\* All parts of the state have their types.
TypeOK ==
  /\ pf \in Manager
  /\ at \in Id \cup {NoTask}
  /\ calling \in BOOLEAN
  /\ hold \in [Character -> Id \cup {NoTask}]

\* No character has two tasks that pull it about, and those that count as
\* moving have one: otherwise add_task would refuse them for ever.
OneTaskEach ==
  /\ \A i, j \in pf.locked : pf.task[i].chr = pf.task[j].chr => i = j
  /\ pf.chars = {pf.task[i].chr : i \in pf.locked}

\* Update stops at the highest slot in use: no task is beyond it.
HighestCovers == \A i \in pf.locked : i <= pf.highest

\* The id a script holds is still that of its own task, although slots are
\* used again: what it pauses or deletes is nobody else's task.
HeldIsOwn ==
  \A c \in Character :
    hold[c] # NoTask => hold[c] \in pf.locked /\ pf.task[hold[c]].chr = c

\* Tasks, characters and the ids that scripts hold agree, however slots are
\* given back and used again in the middle of update.
TasksAgree ==
  /\ TypeOK
  /\ OneTaskEach
  /\ HighestCovers
  /\ HeldIsOwn

\* A task ends because the map is left, because its script deletes it or
\* because it is finished or has failed, in which case its script, if it
\* wants to know, is told.
NoneEndsUntold ==
  [][\A c \in pf.chars \ pf'.chars :
       \/ LeaveMap
       \/ hold[c] # NoTask /\ hold'[c] = NoTask
       \/ /\ at # NoTask /\ Cur.chr = c
          /\ \/ calling
             \/ Cur.cb = None /\ Cur.phase \in {"finished", "failed"}]_vars

\* Only the script that waits for it is told of the end of a task, and at
\* most once.
CallsHolder ==
  [][calling' /\ ~ calling => Cur.cb = Cur.chr /\ hold[Cur.chr] = at]_vars

\* The end of a task is told to the script that waits for it, and to no other.
EndsAreTold == NoneEndsUntold /\ CallsHolder

\* No search starts with nodes of another one in its open list.
FreshSearch ==
  \A i \in pf.locked : pf.task[i].phase = "pathfinding" => ~ pf.task[i].dirty

\* Every task that is not paused ends, unless characters fall down again and
\* again (which nobody counts), or games are loaded again and again.
TaskEnds ==
  <>[][\A n \in Frames : ~ Fall (n) /\ ~ Reload (n)]_vars =>
    \A c \in Character :
      c \in pf.chars ~>
        c \notin pf.chars \/ \E i \in pf.locked : pf.task[i].chr = c /\ pf.task[i].paused
=============================================================================

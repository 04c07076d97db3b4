------------------------- MODULE Characters_proofs --------------------------
(***************************************************************************)
(* Theorems about the tasks and the schedules of characters.               *)
(***************************************************************************)
EXTENDS Characters, ListLemmas

-----------------------------------------------------------------------------
(***************************************************************************)
(* Path finding tasks: for any number of characters, slots, frames and     *)
(* nodes, and for scripts that are careful, every moving character has one *)
(* task, update reaches all of them, and no script holds the id of a task  *)
(* that is not its own.                                                    *)
(***************************************************************************)

\* What is assumed of the constants of PathTasks.
LEMMA PathConstants ==
  /\ MaxTasks \in Nat \ {0}
  /\ Frames \subseteq Nat /\ Patience \in Nat \ {0, 1}
  /\ MaxBlocked \in Nat /\ MaxPath \in Nat
  /\ None \notin Character
BY PathAssumption DEF P!PathAssumption

\* Every task is that of a character, and its callback, if any, the one of
\* the script of this character.
Owned (m) ==
  \A i \in m.locked :
    m.task[i].chr \in Character /\ m.task[i].cb \in {None, m.task[i].chr}

\* What the operations of the manager preserve by themselves.
Pool (m) ==
  /\ m \in P!Manager
  /\ \A i, j \in m.locked : m.task[i].chr = m.task[j].chr => i = j
  /\ m.chars = {m.task[i].chr : i \in m.locked}
  /\ \A i \in m.locked : i <= m.highest
  /\ Owned (m)

\* A script that holds an id is told of the end of the task.
Waits ==
  \A c \in Character :
    hold[c] # P!NoTask =>
      /\ hold[c] \in pf.locked
      /\ pf.task[hold[c]].chr = c
      /\ pf.task[hold[c]].cb = c

\* A task with a callback is one that a script knows, until it is told.
Known ==
  \A i \in pf.locked :
    pf.task[i].cb # None => hold[pf.task[i].cb] = i \/ (calling /\ i = at)

\* The task whose callback is executed keeps its slot, and no script has its id.
Calls == calling => at \in pf.locked /\ \A c \in Character : hold[c] # at

PathInv ==
  /\ Pool (pf)
  /\ at \in P!Id \cup {P!NoTask}
  /\ calling \in BOOLEAN
  /\ hold \in [Character -> P!Id \cup {P!NoTask}]
  /\ Waits
  /\ Known
  /\ Calls

Careful == Careless = {}

-----------------------------------------------------------------------------
\* The search for a slot that is not locked finds one.
LEMMA FoundIsFree ==
  ASSUME NEW m \in P!Manager, P!Free (m) # {}
  PROVE  P!FindFreeTask (m) \in P!Id \ m.locked
<1>1. P!Free (m) \subseteq Nat
  BY PathConstants DEF P!Free, P!Id
<1>2. \E i \in P!Free (m) : \A j \in P!Free (m) : i <= j
  BY <1>1, LeastNatural
<1>3. QED
  BY <1>2 DEF P!FindFreeTask, P!Free

\* A set of slots has a last one.
LEMMA LastIsLast ==
  ASSUME NEW ids, ids \subseteq P!Id, ids # {}
  PROVE  P!LastOf (ids) \in ids /\ \A j \in ids : j <= P!LastOf (ids)
<1> DEFINE dist == {MaxTasks - i : i \in ids}
<1>1. dist \subseteq Nat /\ dist # {}
  <2>1. \A i \in ids : MaxTasks - i \in Nat
    BY PathConstants DEF P!Id
  <2>2. QED
    BY <2>1
<1>2. PICK d \in dist : \A e \in dist : d <= e
  <2> HIDE DEF dist
  <2>1. QED
    BY <1>1, LeastNatural
<1>3. PICK i \in ids : d = MaxTasks - i
  OBVIOUS
<1>4. \A j \in ids : j <= i
  <2> TAKE j \in ids
  <2>1. MaxTasks - i <= MaxTasks - j
    BY <1>2, <1>3
  <2>2. QED
    BY <2>1, PathConstants DEF P!Id
<1>5. QED
  BY <1>4 DEF P!LastOf

\* The task that add_task_ll makes has the type of a task.
LEMMA NewTaskType ==
  ASSUME NEW m \in P!Manager, NEW id \in P!Id, NEW c \in Character, NEW n \in Nat
  PROVE  P!NewTask (m, id, c, n) \in P!Task
BY DEF P!NewTask, P!Task, P!Manager, P!Phase

\* add_task_ll keeps the pool in order if it is given a slot that is free.
LEMMA AddTaskPool ==
  ASSUME NEW m, Pool (m), NEW id \in P!Id \ m.locked, NEW c \in Character, NEW n \in Nat
  PROVE  Pool (P!AddTask (m, id, c, n))
<1> DEFINE a == P!AddTask (m, id, c, n)
           t == P!NewTask (m, id, c, n)
<1>1. CASE c \in m.chars
  BY <1>1 DEF P!AddTask
<1>2. CASE c \notin m.chars
  <2> t \in P!Task /\ t.chr = c /\ t.cb = None
    BY NewTaskType DEF P!NewTask, Pool
  <2> HIDE DEF t
  <2>1. a = [m EXCEPT !.task[id] = t, !.locked = @ \cup {id},
                      !.chars = @ \cup {c}, !.highest = IF id > @ THEN id ELSE @]
    BY <1>2 DEF P!AddTask, t
  <2> HIDE DEF a
  <2>2. /\ a.task = [m.task EXCEPT ![id] = t] /\ a.locked = m.locked \cup {id}
        /\ a.chars = m.chars \cup {c}
        /\ a.highest = IF id > m.highest THEN id ELSE m.highest
        /\ a \in P!Manager
    BY <2>1 DEF Pool, P!Manager
  <2>3. \A i \in m.locked : m.task[i].chr \in m.chars /\ m.task[i].chr # c
    BY <1>2 DEF Pool
  <2>4. /\ a.task[id] = t
        /\ \A i \in m.locked : a.task[i] = m.task[i] /\ i # id /\ i \in P!Id
    BY <2>2 DEF Pool, P!Manager
  <2>5. \A i, j \in a.locked : a.task[i].chr = a.task[j].chr => i = j
    BY <2>2, <2>3, <2>4 DEF Pool
  <2>6. a.chars = {a.task[i].chr : i \in a.locked}
    BY <2>2, <2>4 DEF Pool
  <2>7. \A i \in a.locked : i <= a.highest
    BY <2>2, <2>4, PathConstants DEF Pool, P!Manager, P!Id
  <2>8. Owned (a)
    BY <2>2, <2>4 DEF Pool, Owned
  <2>9. QED
    BY <2>2, <2>5, <2>6, <2>7, <2>8 DEF Pool, a
<1>3. QED
  BY <1>1, <1>2

\* The slot that is the highest after one is freed is still high enough.
LEMMA LoweredCovers ==
  ASSUME NEW m, Pool (m), NEW id \in m.locked
  PROVE  /\ P!Lowered (m, id) \in P!Id
         /\ \A i \in m.locked \ {id} : i <= P!Lowered (m, id)
<1> DEFINE below == {i \in m.locked : i < id}
<1>1. m.locked \subseteq P!Id /\ m.highest \in P!Id
  BY DEF Pool, P!Manager
<1>2. CASE id # m.highest \/ below = {}
  <2>1. P!Lowered (m, id) = m.highest
    BY <1>2 DEF P!Lowered
  <2>2. QED
    BY <1>1, <2>1 DEF Pool
<1>3. CASE id = m.highest /\ below # {}
  <2>1. P!Lowered (m, id) = P!LastOf (below)
    BY <1>3 DEF P!Lowered
  <2>2. P!LastOf (below) \in below /\ \A j \in below : j <= P!LastOf (below)
    BY <1>1, <1>3, LastIsLast
  <2>3. \A i \in m.locked \ {id} : i \in below
    BY <1>1, <1>3, PathConstants DEF Pool, P!Id
  <2>4. QED
    BY <1>1, <2>1, <2>2, <2>3
<1>4. QED
  BY <1>2, <1>3

\* delete_task keeps the pool in order, and takes the task and its character
\* out of it.
LEMMA DeleteTaskPool ==
  ASSUME NEW m, Pool (m), NEW id \in P!Id
  PROVE  /\ Pool (P!DeleteTask (m, id))
         /\ P!DeleteTask (m, id).locked = m.locked \ {id}
         /\ \A i \in P!Id \ {id} : P!DeleteTask (m, id).task[i] = m.task[i]
<1> DEFINE d == P!DeleteTask (m, id)
           t == P!Freed (m.task[id])
<1>1. CASE id \notin m.locked
  BY <1>1 DEF P!DeleteTask
<1>2. CASE id \in m.locked
  <2>1. t \in P!Task
    BY DEF P!Freed, P!FreeTask, Pool, P!Manager, P!Task, P!Phase
  <2> HIDE DEF t
  <2>2. /\ d.task = [m.task EXCEPT ![id] = t] /\ d.locked = m.locked \ {id}
        /\ d.chars = m.chars \ {m.task[id].chr}
        /\ d.highest = P!Lowered (m, id)
        /\ d = [task |-> d.task, locked |-> d.locked, chars |-> d.chars, highest |-> d.highest]
    BY <1>2 DEF P!DeleteTask, Pool, P!Manager, t
  <2> HIDE DEF d
  <2>3. /\ d \in P!Manager
        /\ \A i \in P!Id \ {id} : d.task[i] = m.task[i]
        /\ d.locked \subseteq P!Id \ {id}
    BY <1>2, <2>1, <2>2, LoweredCovers DEF Pool, P!Manager
  <2>4. \A i, j \in d.locked : d.task[i].chr = d.task[j].chr => i = j
    BY <2>2, <2>3 DEF Pool
  <2>5. d.chars = {d.task[i].chr : i \in d.locked}
    BY <1>2, <2>2, <2>3 DEF Pool
  <2>6. \A i \in d.locked : i <= d.highest
    BY <1>2, <2>2, LoweredCovers
  <2>7. Owned (d)
    BY <2>2, <2>3 DEF Pool, Owned
  <2>8. QED
    BY <2>2, <2>3, <2>4, <2>5, <2>6, <2>7 DEF Pool, d
<1>3. QED
  BY <1>1, <1>2

\* Changing a task into another one of the same character, with the same
\* callback, keeps the pool in order.
LEMMA ChangeTaskPool ==
  ASSUME NEW m, Pool (m), NEW id \in m.locked, NEW t \in P!Task,
         t.chr = m.task[id].chr, t.cb \in {None, t.chr}
  PROVE  Pool ([m EXCEPT !.task[id] = t])
<1> DEFINE d == [m EXCEPT !.task[id] = t]
<1>1. /\ d.task = [m.task EXCEPT ![id] = t] /\ d.locked = m.locked
      /\ d.chars = m.chars /\ d.highest = m.highest /\ d \in P!Manager
  BY DEF Pool, P!Manager
<1> HIDE DEF d
<1>2. /\ m.locked \subseteq P!Id
      /\ \A i \in P!Id : d.task[i] = IF i = id THEN t ELSE m.task[i]
  BY <1>1 DEF Pool, P!Manager
<1>3. \A i \in m.locked : d.task[i].chr = m.task[i].chr
  BY <1>2
<1>4. Owned (d)
  BY <1>1, <1>2, <1>3 DEF Pool, Owned
<1>5. \A i, j \in d.locked : d.task[i].chr = d.task[j].chr => i = j
  BY <1>1, <1>3 DEF Pool
<1>6. d.chars = {d.task[i].chr : i \in d.locked}
  BY <1>1, <1>3 DEF Pool
<1>7. \A i \in d.locked : i <= d.highest
  BY <1>1 DEF Pool
<1>8. QED
  BY <1>1, <1>4, <1>5, <1>6, <1>7 DEF Pool, d

\* clear leaves no task behind.
LEMMA ClearedPool ==
  ASSUME Pool (pf)
  PROVE  Pool (P!Cleared) /\ P!Cleared.locked = {} /\ P!Cleared.chars = {}
<1>1. \A i \in P!Id : pf.task[i] \in P!Task
  BY DEF Pool, P!Manager
<1>2. \A i \in P!Id : [P!Freed (pf.task[i]) EXCEPT !.cb = None] \in P!Task
  BY <1>1 DEF P!Freed, P!FreeTask, P!Task, P!Phase
<1>3. 0 \in P!Id
  BY PathConstants DEF P!Id
<1>4. P!Cleared \in P!Manager /\ P!Cleared.locked = {} /\ P!Cleared.chars = {}
  BY <1>2, <1>3 DEF P!Cleared, Pool, P!Manager
<1>5. QED
  BY <1>4 DEF Pool, Owned

\* put_state, clear and get_state bring the pool back in order.
LEMMA RestoredPool ==
  ASSUME Pool (pf), NEW n \in Nat
  PROVE  /\ Pool (P!Restored (P!Cleared, pf, n))
         /\ \A i \in pf.locked : P!Restored (P!Cleared, pf, n).task[i].cb = None
         /\ P!Restored (P!Cleared, pf, n).locked = pf.locked
<1> DEFINE m == P!Cleared
           added (i) == P!NewTask (m, i, pf.task[i].chr, IF pf.task[i].left = 0 THEN 0 ELSE n)
           t (i) == [added (i) EXCEPT !.phase  = pf.task[i].phase,
                                      !.paused = pf.task[i].paused,
                                      !.nodes  = @ + pf.task[i].nodes,
                                      !.dirty  = @ \/ pf.task[i].phase # "pathfinding"]
           r == P!Restored (m, pf, n)
<1>1. \A i \in P!Id : pf.task[i] \in P!Task
  BY DEF Pool, P!Manager
<1>2. m \in P!Manager /\ m.locked = {} /\ m.chars = {}
  BY ClearedPool DEF Pool
<1> HIDE DEF m
<1>3. \A i \in pf.locked : t (i) \in P!Task /\ t (i).chr = pf.task[i].chr /\ t (i).cb = None
  <2> TAKE i \in pf.locked
  <2>1. i \in P!Id /\ pf.task[i].chr \in Character
    BY DEF Pool, Owned, P!Manager
  <2>2. added (i) \in P!Task /\ added (i).chr = pf.task[i].chr /\ added (i).cb = None
    BY <1>1, <1>2, <2>1, NewTaskType DEF P!NewTask, P!Task
  <2>3. pf.task[i] \in P!Task
    BY <1>1, <2>1
  <2> DEFINE nodes == added (i).nodes + pf.task[i].nodes
             dirty == added (i).dirty \/ pf.task[i].phase # "pathfinding"
  <2>4. nodes \in Nat /\ dirty \in BOOLEAN
    BY <2>2, <2>3 DEF P!Task
  <2>5. t (i) = [added (i) EXCEPT !.phase  = pf.task[i].phase,
                                  !.paused = pf.task[i].paused,
                                  !.nodes  = nodes,
                                  !.dirty  = dirty]
    OBVIOUS
  <2> HIDE DEF nodes, dirty, added, t
  <2>6. QED
    BY <2>2, <2>3, <2>4, <2>5 DEF P!Task
<1>4. /\ r.task = [i \in P!Id |-> IF i \in pf.locked THEN t (i) ELSE m.task[i]]
      /\ r.locked = pf.locked
      /\ r.chars = {pf.task[i].chr : i \in pf.locked}
      /\ r.highest = IF pf.locked = {} THEN m.highest ELSE P!LastOf (pf.locked)
      /\ r = [task |-> r.task, locked |-> r.locked, chars |-> r.chars, highest |-> r.highest]
  BY <1>2 DEF P!Restored
<1> HIDE DEF r, t
<1>5. /\ pf.locked \subseteq P!Id
      /\ \A i \in pf.locked : r.task[i].chr = pf.task[i].chr /\ r.task[i].cb = None
  BY <1>3, <1>4 DEF Pool, P!Manager
<1>6. r.highest \in P!Id /\ \A i \in pf.locked : i <= r.highest
  BY <1>2, <1>4, <1>5, LastIsLast DEF P!Manager
<1>7. Owned (r)
  BY <1>4, <1>5 DEF Pool, Owned
<1>8. r \in P!Manager
  BY <1>2, <1>3, <1>4, <1>6, <1>7, <1>5 DEF Pool, Owned, P!Manager
<1>9. \A i, j \in r.locked : r.task[i].chr = r.task[j].chr => i = j
  BY <1>4, <1>5 DEF Pool
<1>10. r.chars = {r.task[i].chr : i \in r.locked}
  <2>1. {pf.task[i].chr : i \in pf.locked} = {r.task[i].chr : i \in pf.locked}
    BY <1>5
  <2>2. QED
    BY <1>4, <2>1
<1>11. QED
  BY <1>4, <1>5, <1>6, <1>7, <1>8, <1>9, <1>10 DEF Pool, r, m

-----------------------------------------------------------------------------
\* Nothing moves, nobody waits.
LEMMA PathInit == P!Init => PathInv
<1> SUFFICES ASSUME P!Init PROVE PathInv
  OBVIOUS
<1>1. 0 \in P!Id /\ P!NoTask \notin P!Id
  BY PathConstants DEF P!Id, P!NoTask
<1>2. pf \in P!Manager /\ pf.locked = {} /\ pf.chars = {}
  BY <1>1 DEF P!Init, P!Manager, P!Task, P!Phase, P!FreeTask
<1>3. Pool (pf)
  BY <1>2 DEF Pool, Owned
<1>4. QED
  BY <1>2, <1>3 DEF P!Init, PathInv, Waits, Known, Calls

\* Update goes on to a slot, or ends.
LEMMA NextSlotType ==
  ASSUME NEW m \in P!Manager, at \in P!Id
  PROVE  P!NextSlot (m) \in P!Id \cup {P!NoTask}
BY PathConstants DEF P!NextSlot, P!Id, P!Manager

\* A task under update that remains the one of its character.
LEMMA StepInv ==
  ASSUME PathInv, at \in pf.locked, ~ calling, NEW t \in P!Task,
         t.chr = P!Cur.chr, t.cb = P!Cur.cb, P!Step (t)
  PROVE  PathInv'
<1>1. at \in P!Id /\ P!NoTask \notin P!Id /\ t.cb \in {None, t.chr}
  BY PathConstants DEF PathInv, Pool, P!Manager, Owned, P!Id, P!NoTask, P!Cur
<1>2. Pool (pf')
  BY <1>1, ChangeTaskPool DEF PathInv, P!Step, P!Cur
<1>3. at' \in P!Id \cup {P!NoTask}
  BY <1>1, NextSlotType DEF PathInv, Pool, P!Step
<1>4. /\ pf'.locked = pf.locked
      /\ \A i \in P!Id : pf'.task[i].chr = pf.task[i].chr /\ pf'.task[i].cb = pf.task[i].cb
  BY <1>1 DEF PathInv, Pool, P!Manager, P!Step, P!Cur
<1>5. Waits'
  BY <1>4 DEF PathInv, Waits, P!Step
<1>6. Known'
  <2>1. pf.locked \subseteq P!Id
    BY DEF PathInv, Pool, P!Manager
  <2>2. QED
    BY <1>4, <2>1 DEF PathInv, Known, P!Step
<1>7. QED
  BY <1>2, <1>3, <1>5, <1>6 DEF PathInv, Calls, P!Step

\* add_task keeps the pool in order, and leaves all tasks alone that are in it.
LEMMA AddedPool ==
  ASSUME Pool (pf), NEW c \in Character, NEW n \in Nat
  PROVE  /\ Pool (P!Added (pf, c, n))
         /\ pf.locked \subseteq P!Added (pf, c, n).locked
         /\ \A i \in pf.locked : P!Added (pf, c, n).task[i] = pf.task[i]
         /\ \A i \in P!Added (pf, c, n).locked \ pf.locked :
              P!Added (pf, c, n).task[i].cb = None /\ c \notin pf.chars
<1> DEFINE id == P!FindFreeTask (pf)
<1>1. CASE P!Free (pf) = {}
  BY <1>1 DEF P!Added
<1>2. CASE P!Free (pf) # {}
  <2>1. id \in P!Id \ pf.locked
    BY <1>2, FoundIsFree DEF Pool
  <2>2. P!Added (pf, c, n) = P!AddTask (pf, id, c, n)
    BY <1>2 DEF P!Added
  <2> HIDE DEF id
  <2>3. Pool (P!AddTask (pf, id, c, n))
    BY <2>1, AddTaskPool
  <2>4. /\ pf.locked \subseteq P!AddTask (pf, id, c, n).locked
        /\ \A i \in pf.locked : P!AddTask (pf, id, c, n).task[i] = pf.task[i]
        /\ \A i \in P!AddTask (pf, id, c, n).locked \ pf.locked :
             P!AddTask (pf, id, c, n).task[i].cb = None /\ c \notin pf.chars
    BY <2>1 DEF P!AddTask, P!NewTask, Pool, P!Manager
  <2>5. QED
    BY <2>2, <2>3, <2>4
<1>3. QED
  BY <1>1, <1>2

\* The id that add_task returns is that of the new task.
LEMMA AddedIdIsOwn ==
  ASSUME Pool (pf), NEW c \in Character, NEW n \in Nat, P!AddedId (pf, c, n) # P!NoTask
  PROVE  /\ P!AddedId (pf, c, n) \in P!Id \ pf.locked
         /\ P!AddedId (pf, c, n) \in P!Added (pf, c, n).locked
         /\ P!Added (pf, c, n).task[P!AddedId (pf, c, n)].chr = c
         /\ P!Added (pf, c, n).locked = pf.locked \cup {P!AddedId (pf, c, n)}
         /\ c \notin pf.chars
<1> DEFINE id == P!FindFreeTask (pf)
<1>1. /\ P!Free (pf) # {} /\ c \notin pf.chars
      /\ P!AddedId (pf, c, n) = id
      /\ P!Added (pf, c, n) = P!AddTask (pf, id, c, n)
  BY DEF P!AddedId, P!Added
<1>2. id \in P!Id \ pf.locked
  BY <1>1, FoundIsFree DEF Pool
<1> HIDE DEF id
<1>3. /\ P!AddTask (pf, id, c, n).locked = pf.locked \cup {id}
      /\ P!AddTask (pf, id, c, n).task[id].chr = c
  BY <1>1, <1>2 DEF P!AddTask, P!NewTask, Pool, P!Manager
<1>4. QED
  BY <1>1, <1>2, <1>3

-----------------------------------------------------------------------------
\* add_task and set_callback: the id is that of a new task.
LEMMA StartInv ==
  ASSUME PathInv, NEW c \in Character, NEW n \in Nat, P!Start (c, n)
  PROVE  PathInv'
<1> DEFINE id == P!AddedId (pf, c, n)
           m  == P!Added (pf, c, n)
<1>1. /\ Pool (m) /\ pf.locked \subseteq m.locked
      /\ \A i \in pf.locked : m.task[i] = pf.task[i]
      /\ \A i \in m.locked \ pf.locked : m.task[i].cb = None
  BY AddedPool DEF PathInv
<1>2. CASE id = P!NoTask
  <2>1. pf' = m /\ hold' = [hold EXCEPT ![c] = P!NoTask] /\ hold[c] = P!NoTask
    BY <1>2 DEF P!Start
  <2> HIDE DEF m
  <2>2. hold' = hold
    BY <2>1 DEF PathInv
  <2>3. QED
    BY <1>1, <2>1, <2>2 DEF PathInv, Waits, Known, Calls, P!Start
<1>3. CASE id # P!NoTask
  <2>1. /\ id \in P!Id \ pf.locked /\ m.locked = pf.locked \cup {id}
        /\ m.task[id].chr = c /\ c \notin pf.chars
    BY <1>3, AddedIdIsOwn DEF PathInv
  <2>2. pf' = [m EXCEPT !.task[id].cb = c] /\ hold' = [hold EXCEPT ![c] = id]
    BY <1>3 DEF P!Start
  <2> HIDE DEF id, m
  <2> DEFINE t == [m.task[id] EXCEPT !.cb = c]
  <2>3. t \in P!Task /\ t.chr = c /\ t.cb = c /\ pf' = [m EXCEPT !.task[id] = t]
    BY <1>1, <2>1, <2>2 DEF Pool, P!Manager, P!Task
  <2> HIDE DEF t
  <2>4. Pool (pf')
    BY <1>1, <2>1, <2>3, ChangeTaskPool
  <2>5. /\ pf'.locked = m.locked /\ pf'.task[id] = t
        /\ \A i \in pf.locked : pf'.task[i] = pf.task[i] /\ i # id
    BY <1>1, <2>1, <2>3 DEF Pool, P!Manager
  <2>6. Waits'
    BY <1>1, <2>1, <2>2, <2>3, <2>5 DEF PathInv, Waits
  <2>7. Calls'
    BY <1>1, <2>1, <2>2, <2>5 DEF PathInv, Calls, P!Start
  <2>8. Known'
    <3>1. \A i \in pf.locked : pf.task[i].chr \in pf.chars
      BY DEF PathInv, Pool
    <3>2. \A i \in pf.locked : pf.task[i].cb # c
      BY <2>1, <3>1, PathConstants DEF PathInv, Pool, Owned
    <3>3. calling' = calling /\ at' = at /\ hold'[c] = id
      BY <2>2 DEF P!Start, PathInv
    <3>4. \A i \in pf.locked : pf.task[i].cb \in Character \cup {None}
      BY DEF PathInv, Pool, Owned
    <3>5. QED
      BY <2>1, <2>2, <2>3, <2>5, <3>2, <3>3, <3>4 DEF PathInv, Known
  <2>9. QED
    BY <2>1, <2>2, <2>4, <2>6, <2>7, <2>8 DEF PathInv, P!Start
<1>4. QED
  BY <1>2, <1>3

\* add_task alone: a new task that no script knows.
LEMMA SendInv ==
  ASSUME PathInv, NEW c \in Character, NEW n \in Nat, P!Send (c, n)
  PROVE  PathInv'
<1>1. /\ Pool (pf') /\ pf.locked \subseteq pf'.locked
      /\ \A i \in pf.locked : pf'.task[i] = pf.task[i]
      /\ \A i \in pf'.locked \ pf.locked : pf'.task[i].cb = None
  BY AddedPool DEF PathInv, P!Send
<1>2. QED
  BY <1>1 DEF PathInv, Waits, Known, Calls, P!Send

\* pause_task and resume_task change nothing but a flag.
LEMMA PauseResumeInv ==
  ASSUME PathInv, NEW c \in Character, P!Pause (c) \/ P!Resume (c)
  PROVE  PathInv'
<1>1. PICK p \in BOOLEAN : pf' = [pf EXCEPT !.task[hold[c]].paused = p]
  BY DEF P!Pause, P!Resume
<1>2. hold[c] \in pf.locked /\ pf.locked \subseteq P!Id
  BY DEF P!Pause, P!Resume, PathInv, Waits, Pool, P!Manager
<1> DEFINE t == [pf.task[hold[c]] EXCEPT !.paused = p]
<1>3. t \in P!Task /\ t.chr = pf.task[hold[c]].chr /\ t.cb = pf.task[hold[c]].cb
  BY <1>2 DEF PathInv, Pool, P!Manager, P!Task
<1>4. pf' = [pf EXCEPT !.task[hold[c]] = t]
  BY <1>1, <1>2 DEF PathInv, Pool, P!Manager
<1> HIDE DEF t
<1>5. Pool (pf')
  BY <1>2, <1>3, <1>4, ChangeTaskPool DEF PathInv, Pool, Owned
<1>6. /\ pf'.locked = pf.locked
      /\ \A i \in P!Id : pf'.task[i].chr = pf.task[i].chr /\ pf'.task[i].cb = pf.task[i].cb
  BY <1>2, <1>3, <1>4 DEF PathInv, Pool, P!Manager
<1>7. at' = at /\ calling' = calling /\ hold' = hold
  BY DEF P!Pause, P!Resume
<1>8. QED
  BY <1>5, <1>6, <1>7, <1>2 DEF PathInv, Waits, Known, Calls

\* delete_task: the script forgets the id of its task, which is its own.
LEMMA DeleteInv ==
  ASSUME Careful, PathInv, NEW c \in Character, P!Delete (c)
  PROVE  PathInv'
<1>1. /\ hold[c] \in pf.locked /\ pf.locked \subseteq P!Id
      /\ pf.task[hold[c]].chr = c
  BY DEF P!Delete, PathInv, Waits, Pool, P!Manager
<1>2. hold' = [hold EXCEPT ![c] = P!NoTask]
  BY DEF P!Delete, P!Forgotten, Careful
<1>3. /\ Pool (pf') /\ pf'.locked = pf.locked \ {hold[c]}
      /\ \A i \in P!Id \ {hold[c]} : pf'.task[i] = pf.task[i]
  BY <1>1, DeleteTaskPool DEF P!Delete, PathInv
<1>4. \A d \in Character \ {c} : hold'[d] = hold[d] /\ hold[d] # hold[c]
  BY <1>1, <1>2 DEF PathInv, Waits, P!Delete
<1>5. Waits'
  BY <1>1, <1>2, <1>3, <1>4 DEF PathInv, Waits
<1>6. Calls'
  <2>1. P!NoTask \notin P!Id
    BY PathConstants DEF P!Id, P!NoTask
  <2>2. SUFFICES ASSUME calling
                 PROVE  at \in pf'.locked /\ \A d \in Character : hold'[d] # at
    BY DEF Calls, P!Delete
  <2>3. at \in pf.locked /\ \A d \in Character : hold[d] # at
    BY <2>2 DEF PathInv, Calls
  <2>4. hold'[c] = P!NoTask
    BY <1>2 DEF PathInv
  <2>5. QED
    BY <1>1, <1>3, <1>4, <2>1, <2>3, <2>4
<1>7. Known'
  <2>1. \A i \in pf.locked : pf.task[i].cb \in {None, pf.task[i].chr}
    BY DEF PathInv, Pool, Owned
  <2>2. \A i \in pf'.locked : i \in pf.locked /\ pf.task[i].chr \in Character \ {c}
    BY <1>1, <1>3 DEF PathInv, Pool, Owned
  <2>3. QED
    BY <1>1, <1>3, <1>4, <2>1, <2>2 DEF PathInv, Known, P!Delete
<1>8. QED
  BY <1>2, <1>3, <1>5, <1>6, <1>7 DEF PathInv, P!Delete

\* The callback starts: the only script that has the id forgets it.
LEMMA CallInv ==
  ASSUME Careful, PathInv, P!Call
  PROVE  PathInv'
<1>1. at \in pf.locked /\ P!Cur.cb = P!Cur.chr /\ P!Cur.chr \in Character
  BY DEF P!Call, P!Active, PathInv, Pool, Owned, P!Cur
<1>2. hold' = [hold EXCEPT ![P!Cur.chr] = P!NoTask]
  BY <1>1 DEF P!Call, P!Forgotten, Careful
<1>3. P!NoTask \notin P!Id /\ at \in P!Id
  BY <1>1, PathConstants DEF P!Id, P!NoTask, PathInv, Pool, P!Manager
<1>4. hold' \in [Character -> P!Id \cup {P!NoTask}]
  BY <1>2 DEF PathInv
<1>5. \A d \in Character : hold'[d] # at
  <2> TAKE d \in Character
  <2>1. CASE d = P!Cur.chr
    BY <1>2, <1>3, <2>1 DEF PathInv
  <2>2. CASE d # P!Cur.chr
    BY <1>2, <1>3, <2>2 DEF PathInv, Waits, P!Cur
  <2>3. QED
    BY <2>1, <2>2
<1>6. Waits'
  BY <1>1, <1>2 DEF PathInv, Waits, P!Call
<1>7. Known'
  <2>1. \A i \in pf.locked : pf.task[i].cb = P!Cur.chr => i = at
    BY <1>1, PathConstants DEF PathInv, Pool, Owned, P!Cur
  <2>2. \A i \in pf.locked : pf.task[i].cb \in Character \cup {None}
    BY DEF PathInv, Pool, Owned
  <2>3. calling' /\ ~ calling /\ at' = at /\ pf' = pf
    BY DEF P!Call, P!Active
  <2>4. QED
    BY <1>1, <1>2, <2>1, <2>2, <2>3 DEF PathInv, Known
<1>8. QED
  BY <1>1, <1>4, <1>5, <1>6, <1>7 DEF PathInv, Calls, P!Call

\* Update deletes a task that no script has the id of.
LEMMA RemoveInv ==
  ASSUME PathInv, at \in pf.locked, \A c \in Character : hold[c] # at,
         pf' = P!DeleteTask (pf, at), at' = P!NextSlot (pf'), calling' = FALSE, hold' = hold
  PROVE  PathInv'
<1>1. at \in P!Id /\ pf.locked \subseteq P!Id
  BY DEF PathInv, Pool, P!Manager
<1>2. /\ Pool (pf') /\ pf'.locked = pf.locked \ {at}
      /\ \A i \in P!Id \ {at} : pf'.task[i] = pf.task[i]
  BY <1>1, DeleteTaskPool DEF PathInv
<1>3. at' \in P!Id \cup {P!NoTask}
  <2>1. pf' \in P!Manager
    BY <1>2 DEF Pool
  <2>2. P!NextSlot (pf') \in P!Id \cup {P!NoTask}
    BY <1>1, <2>1, PathConstants DEF P!NextSlot, P!Id, P!Manager
  <2>3. QED
    BY <2>2
<1>4. Waits'
  BY <1>1, <1>2 DEF PathInv, Waits
<1>5. Known'
  BY <1>1, <1>2 DEF PathInv, Known
<1>6. QED
  BY <1>2, <1>3, <1>4, <1>5 DEF PathInv, Calls

\* One frame of update.
LEMMA UpdateInv ==
  ASSUME Careful, PathInv, P!Update
  PROVE  PathInv'
<1> USE DEF P!Cur
<1>1. \A p : P!Active (p) => /\ at \in pf.locked /\ ~ calling
                           /\ P!Cur \in P!Task /\ P!Cur.phase = p
  BY DEF P!Active, PathInv, Pool, P!Manager
<1>2. CASE P!BeginFrame
  <2>1. P!NoTask \notin P!Id /\ 0 \in P!Id
    BY PathConstants DEF P!Id, P!NoTask
  <2>2. ~ calling
    BY <1>2, <2>1 DEF P!BeginFrame, PathInv, Calls, Pool, P!Manager
  <2>3. QED
    BY <1>2, <2>1, <2>2 DEF P!BeginFrame, PathInv, Waits, Known, Calls
<1>3. CASE P!SkipSlot
  <2>1. P!NextSlot (pf) \in P!Id \cup {P!NoTask}
    BY <1>3, NextSlotType DEF P!SkipSlot, PathInv, Pool
  <2>2. QED
    BY <1>3, <2>1 DEF P!SkipSlot, PathInv, Waits, Known, Calls
<1>4. ASSUME NEW k \in 0 .. MaxPath, P!Found (k)
      PROVE  PathInv'
  <2> DEFINE t == [P!Cur EXCEPT !.phase = "moving", !.left = Patience - 1,
                              !.nodes = @ + k, !.dirty = FALSE]
  <2>1. Patience - 1 \in Nat /\ P!Cur.nodes + k \in Nat
    BY <1>1, <1>4, PathConstants DEF P!Found, P!Task
  <2>2. t \in P!Task /\ t.chr = P!Cur.chr /\ t.cb = P!Cur.cb
    BY <1>1, <1>4, <2>1 DEF P!Found, P!Task, P!Phase
  <2>3. QED
    BY <1>1, <1>4, <2>2, StepInv DEF P!Found
<1>5. CASE P!NotFound
  <2>1. CASE P!Cur.left > 1
    <3> DEFINE t == [P!Cur EXCEPT !.left = @ - 1]
    <3>1. t \in P!Task /\ t.chr = P!Cur.chr /\ t.cb = P!Cur.cb
      BY <1>1, <1>5, <2>1 DEF P!NotFound, P!Task
    <3>2. QED
      BY <1>1, <1>5, <2>1, <3>1, StepInv DEF P!NotFound
  <2>2. CASE ~ (P!Cur.left > 1)
    <3> DEFINE t == [P!Over ("failed") EXCEPT !.dirty = FALSE]
    <3>1. t \in P!Task /\ t.chr = P!Cur.chr /\ t.cb = P!Cur.cb
      BY <1>1, <1>5 DEF P!NotFound, P!Task, P!Phase, P!Over
    <3>2. QED
      BY <1>1, <1>5, <2>2, <3>1, StepInv DEF P!NotFound
  <2>3. QED
    BY <2>1, <2>2
<1>6. CASE P!Arrived \/ P!Blocked
  <2>1. PICK p \in {"failed", "finished"} : P!Active ("moving") /\ P!Step (P!Over (p))
    BY <1>6 DEF P!Arrived, P!Blocked
  <2>2. P!Over (p) \in P!Task /\ P!Over (p).chr = P!Cur.chr /\ P!Over (p).cb = P!Cur.cb
    BY <1>1, <2>1 DEF P!Task, P!Phase, P!Over
  <2>3. QED
    BY <1>1, <2>1, <2>2, StepInv
<1>7. CASE P!Turn
  BY <1>1, <1>7, StepInv DEF P!Turn
<1>8. ASSUME NEW r \in 0 .. 1, P!Walk (r) \/ P!Stuck (r)
      PROVE  PathInv'
  <2>1. P!Active ("moving") /\ P!Cur.nodes > 0
    BY <1>8 DEF P!Walk, P!Stuck
  <2>2. PICK left \in Nat : P!Step ([P!Cur EXCEPT !.nodes = @ - r, !.left = left])
    <3>1. CASE P!Walk (r)
      BY <3>1, PathConstants DEF P!Walk
    <3>2. CASE P!Stuck (r)
      <4>1. P!Cur.left - 1 \in Nat
        BY <1>1, <2>1, <3>2 DEF P!Stuck, P!Task
      <4>2. QED
        BY <3>2, <4>1 DEF P!Stuck
    <3>3. QED
      BY <1>8, <3>1, <3>2
  <2> DEFINE t == [P!Cur EXCEPT !.nodes = @ - r, !.left = left]
  <2>3. P!Cur.nodes - r \in Nat
    BY <1>1, <2>1 DEF P!Task
  <2>4. t \in P!Task /\ t.chr = P!Cur.chr /\ t.cb = P!Cur.cb
    BY <1>1, <2>1, <2>3 DEF P!Task
  <2>5. QED
    BY <1>1, <2>1, <2>2, <2>4, StepInv
<1>9. ASSUME NEW r \in 0 .. 1, NEW n \in Frames \ {0}, P!Detour (r, n)
      PROVE  PathInv'
  <2>1. PICK k \in 1 .. P!Cur.nodes - r :
          P!Step ([P!Cur EXCEPT !.phase = "pathfinding", !.left = n,
                            !.nodes = k, !.blocked = @ + 1])
    BY <1>9 DEF P!Detour
  <2> DEFINE t == [P!Cur EXCEPT !.phase = "pathfinding", !.left = n,
                              !.nodes = k, !.blocked = @ + 1]
  <2>2. P!Active ("moving") /\ k \in Nat
    BY <1>9 DEF P!Detour
  <2>3. n \in Nat /\ P!Cur.blocked + 1 \in Nat
    BY <1>1, <2>2, PathConstants DEF P!Task
  <2>4. t \in P!Task /\ t.chr = P!Cur.chr /\ t.cb = P!Cur.cb
    BY <1>1, <2>2, <2>3 DEF P!Task, P!Phase
  <2>5. QED
    BY <1>1, <2>1, <2>2, <2>4, StepInv
<1>10. ASSUME NEW n \in Frames \ {0}, P!Fall (n)
       PROVE  PathInv'
  <2> DEFINE t == [P!Cur EXCEPT !.phase = "pathfinding", !.left = n, !.nodes = 0]
  <2>1. t \in P!Task /\ t.chr = P!Cur.chr /\ t.cb = P!Cur.cb
    BY <1>1, <1>10, PathConstants DEF P!Fall, P!Task, P!Phase
  <2>2. QED
    BY <1>1, <1>10, <2>1, StepInv DEF P!Fall
<1>11. CASE P!Call
  BY <1>11, CallInv
<1>12. CASE P!End
  <2>1. at \in pf.locked /\ ~ calling /\ P!Cur.cb = None
    BY <1>12 DEF P!End, P!Active
  <2>2. \A c \in Character : hold[c] # at
    <3>1. P!NoTask \notin P!Id /\ at \in P!Id
      BY <2>1, PathConstants DEF P!Id, P!NoTask, PathInv, Pool, P!Manager
    <3>2. QED
      BY <2>1, <3>1, PathConstants DEF PathInv, Waits
  <2>3. QED
    BY <1>12, <2>1, <2>2, RemoveInv DEF P!End, PathInv
<1>13. CASE P!Return
  BY <1>13, RemoveInv DEF P!Return, PathInv, Calls
<1>14. QED
  BY <1>2, <1>3, <1>4, <1>5, <1>6, <1>7, <1>8, <1>9, <1>10, <1>11, <1>12, <1>13
  DEF P!Update, P!Advance

\* The map is left: nobody waits, and no callback is executed.
LEMMA LeaveMapInv ==
  ASSUME PathInv, P!LeaveMap
  PROVE  PathInv'
<1>1. Pool (pf') /\ pf'.locked = {}
  BY ClearedPool DEF P!LeaveMap, PathInv
<1>2. ~ calling
  <2>1. P!NoTask \notin P!Id
    BY PathConstants DEF P!Id, P!NoTask
  <2>2. QED
    BY <2>1 DEF P!LeaveMap, PathInv, Calls, Pool, P!Manager
<1>3. QED
  BY <1>1, <1>2 DEF PathInv, Waits, Known, Calls, P!LeaveMap

\* A game that is loaded: nobody waits, and no callback is executed.
LEMMA ReloadInv ==
  ASSUME Careful, PathInv, NEW n \in Frames \ {0}, P!Reload (n)
  PROVE  PathInv'
<1>1. pf' = P!Restored (P!Cleared, pf, n) /\ hold' = [c \in Character |-> P!NoTask]
  BY DEF P!Reload, P!BeforeLoad, Careful
<1>2. /\ Pool (pf') /\ pf'.locked = pf.locked
      /\ \A i \in pf.locked : pf'.task[i].cb = None
  BY <1>1, RestoredPool, PathConstants DEF PathInv
<1>3. ~ calling
  <2>1. P!NoTask \notin P!Id
    BY PathConstants DEF P!Id, P!NoTask
  <2>2. QED
    BY <2>1 DEF P!Reload, PathInv, Calls, Pool, P!Manager
<1>4. QED
  BY <1>1, <1>2, <1>3 DEF PathInv, Waits, Known, Calls, P!Reload

\* Every step of the tasks keeps the strengthened invariant.
LEMMA PathNext ==
  ASSUME Careful, PathInv, P!Next
  PROVE  PathInv'
<1>1. CASE P!Script
  <2>1. PICK c \in Character :
          \/ \E n \in Frames : P!Start (c, n) \/ P!Send (c, n)
          \/ P!Pause (c) \/ P!Resume (c) \/ P!Delete (c)
    BY <1>1 DEF P!Script
  <2>2. Frames \subseteq Nat
    BY PathConstants
  <2>3. QED
    BY <2>1, <2>2, StartInv, SendInv, PauseResumeInv, DeleteInv
<1>2. CASE P!Update
  BY <1>2, UpdateInv
<1>3. CASE \E n \in Frames \ {0} : P!Reload (n)
  BY <1>3, ReloadInv
<1>4. CASE P!LeaveMap
  BY <1>4, LeaveMapInv
<1>5. QED
  BY <1>1, <1>2, <1>3, <1>4 DEF P!Next

\* The strengthened invariant is one.
LEMMA PathInvariant == Careful => (Spec => [](scene = "tasks" => PathInv))
<1> SUFFICES ASSUME Careful
             PROVE  Spec => [](scene = "tasks" => PathInv)
  OBVIOUS
<1> DEFINE Inv == scene = "tasks" => PathInv
<1>1. Init => Inv
  BY PathInit DEF Init
<1>2. Inv /\ [Next]_vars => Inv'
  <2> SUFFICES ASSUME Inv, [Next]_vars, scene' = "tasks"
               PROVE  PathInv'
    OBVIOUS
  <2>1. CASE PathTasksStep
    BY <2>1, PathNext DEF PathTasksStep
  <2>2. CASE scene' = scene /\ UNCHANGED pathTasksVars
    BY <2>2 DEF pathTasksVars, PathInv, Waits, Known, Calls
  <2>3. QED
    BY <2>1, <2>2 DEF Next, vars, PathTasksStep, SchedulesStep
<1>3. QED
  BY <1>1, <1>2, PTL DEF Spec

-----------------------------------------------------------------------------
\* All parts of the state have their types; in particular no slot outside
\* the pool is ever reached.
THEOREM PathTypes == Careful => (Spec => [](scene = "tasks" => P!TypeOK))
<1>1. PathInv => P!TypeOK
  BY DEF PathInv, Pool, P!TypeOK
<1>2. QED
  BY <1>1, PathInvariant, PTL

\* No script holds the id of a task of another character.
THEOREM OwnId == Careful => (Spec => [](scene = "tasks" => P!HeldIsOwn))
<1>1. PathInv => P!HeldIsOwn
  BY DEF PathInv, Waits, P!HeldIsOwn
<1>2. QED
  BY <1>1, PathInvariant, PTL

\* Tasks, moving characters and the ids that scripts hold agree: no character
\* has two tasks, those that count as moving have one, and the loop of update
\* reaches all of them.
THEOREM Agreeing == Careful => (Spec => []TasksAgree)
<1>1. PathInv => P!TasksAgree
  <2>1. PathInv => P!TypeOK /\ P!OneTaskEach
    BY DEF PathInv, Pool, P!TypeOK, P!OneTaskEach
  <2>2. PathInv => P!HighestCovers /\ P!HeldIsOwn
    BY DEF PathInv, Pool, Waits, P!HighestCovers, P!HeldIsOwn
  <2>3. QED
    BY <2>1, <2>2 DEF P!TasksAgree
<1>2. (scene = "tasks" => PathInv) => TasksAgree
  BY <1>1 DEF TasksAgree
<1>3. QED
  BY <1>2, PathInvariant, PTL

\* A step is one of the tasks, or leaves them alone.
LEMMA TaskSteps ==
  ASSUME [Next]_vars
  PROVE  (scene = "tasks" /\ P!Next) \/ UNCHANGED P!vars
BY DEF Next, vars, PathTasksStep, SchedulesStep, pathTasksVars, P!vars

\* The callback of a task is executed for the script that waits for it, once.
THEOREM HolderCalled == Careful => (Spec => P!CallsHolder)
<1>1. (scene = "tasks" => PathInv) /\ [Next]_vars
        => [calling' /\ ~ calling => P!Cur.cb = P!Cur.chr /\ hold[P!Cur.chr] = at]_(P!vars)
  <2>1. SUFFICES ASSUME PathInv, P!Next, calling', ~ calling
                 PROVE  P!Cur.cb = P!Cur.chr /\ hold[P!Cur.chr] = at
    BY TaskSteps
  <2>2. P!Call
    BY <2>1 DEF P!Next, P!Script, P!Start, P!Send, P!Pause, P!Resume, P!Delete, P!Update,
       P!BeginFrame, P!SkipSlot, P!Found, P!NotFound, P!Arrived, P!Blocked, P!Turn, P!Walk,
       P!Stuck, P!Advance, P!Detour, P!Fall, P!Step, P!End, P!Return, P!Reload, P!LeaveMap
  <2>3. at \in pf.locked /\ P!Cur.cb # None
    BY <2>2 DEF P!Call, P!Active
  <2>4. QED
    BY <2>1, <2>3 DEF PathInv, Known, Pool, Owned, P!Cur
<1>2. QED
  BY <1>1, PathInvariant, PTL DEF Spec, P!CallsHolder

\* Only scripts and update take characters off the list of those that move.
LEMMA CharactersKept ==
  ASSUME Careful, PathInv, P!Next, NEW c \in pf.chars \ pf'.chars
  PROVE  \/ P!Delete (c) \/ P!LeaveMap
         \/ at \in pf.locked /\ P!Cur.chr = c /\ (P!End \/ P!Return)
<1>1. Frames \subseteq Nat
  BY PathConstants
<1>2. \A m \in {P!Added (pf, d, n) : d \in Character, n \in Frames} : pf.chars \subseteq m.chars
  <2>1. ASSUME NEW d \in Character, NEW n \in Frames
        PROVE  pf.chars \subseteq P!Added (pf, d, n).chars
    BY <1>1, AddedPool DEF PathInv, Pool
  <2>2. QED
    BY <2>1
<1>3. \A id \in P!Id :
        pf.chars \ P!DeleteTask (pf, id).chars \subseteq
          IF id \in pf.locked THEN {pf.task[id].chr} ELSE {}
  BY DEF P!DeleteTask, PathInv, Pool, P!Manager
<1>4. CASE P!Script
  <2>1. PICK d \in Character :
          \/ \E n \in Frames : P!Start (d, n) \/ P!Send (d, n)
          \/ P!Pause (d) \/ P!Resume (d) \/ P!Delete (d)
    BY <1>4 DEF P!Script
  <2>2. ASSUME NEW n \in Frames, P!Start (d, n) \/ P!Send (d, n)
        PROVE  FALSE
    <3>1. pf'.chars = P!Added (pf, d, n).chars
      <4>1. P!Added (pf, d, n) \in P!Manager
        BY <1>1, AddedPool DEF PathInv, Pool
      <4>2. QED
        BY <2>2, <4>1 DEF P!Start, P!Send, P!Manager
    <3>2. QED
      BY <1>2, <3>1
  <2>3. ASSUME P!Pause (d) \/ P!Resume (d)
        PROVE  FALSE
    BY <2>3 DEF P!Pause, P!Resume, PathInv, Pool, P!Manager
  <2>4. CASE P!Delete (d)
    <3>1. hold[d] \in P!Id /\ hold[d] \in pf.locked /\ pf.task[hold[d]].chr = d
      BY <2>4 DEF P!Delete, PathInv, Waits, Pool, P!Manager
    <3>2. c = d
      BY <1>3, <2>4, <3>1 DEF P!Delete
    <3>3. QED
      BY <2>4, <3>2
  <2>5. QED
    BY <2>1, <2>2, <2>3, <2>4
<1>5. CASE P!Update
  <2>1. ASSUME NEW t, P!Step (t)
        PROVE  FALSE
    BY <2>1 DEF P!Step, PathInv, Pool, P!Manager
  <2>2. CASE P!End \/ P!Return
    <3>1. at \in pf.locked /\ at \in P!Id /\ pf' = P!DeleteTask (pf, at)
      BY <2>2 DEF P!End, P!Return, P!Active, PathInv, Calls, Pool, P!Manager
    <3>2. QED
      BY <1>3, <2>2, <3>1 DEF P!Cur
  <2>3. CASE P!BeginFrame \/ P!SkipSlot \/ P!Call
    BY <2>3 DEF P!BeginFrame, P!SkipSlot, P!Call
  <2>4. CASE P!NotFound
    BY <2>1, <2>4 DEF P!NotFound
  <2>5. CASE \/ \E k \in 0 .. MaxPath : P!Found (k)
             \/ P!Arrived \/ P!Turn \/ P!Blocked
             \/ \E n \in Frames \ {0} : P!Fall (n)
    BY <2>1, <2>5 DEF P!Found, P!Arrived, P!Turn, P!Blocked, P!Fall
  <2>6. CASE \/ \E r \in 0 .. 1 : P!Walk (r) \/ P!Stuck (r)
             \/ \E r \in 0 .. 1, n \in Frames \ {0} : P!Detour (r, n)
    BY <2>1, <2>6 DEF P!Walk, P!Stuck, P!Detour
  <2>7. QED
    BY <1>5, <2>2, <2>3, <2>4, <2>5, <2>6 DEF P!Update, P!Advance
<1>6. ASSUME NEW n \in Frames \ {0}, P!Reload (n)
      PROVE  FALSE
  <2>1. pf' = P!Restored (P!Cleared, pf, n)
    BY <1>6 DEF P!Reload, P!BeforeLoad, Careful
  <2>2. pf'.chars = pf.chars
    BY <2>1 DEF P!Restored, P!Cleared, PathInv, Pool, P!Manager
  <2>3. QED
    BY <2>2
<1>7. QED
  BY <1>4, <1>5, <1>6 DEF P!Next

\* No task vanishes without notice, however slots are used again.
THEOREM EndTold == Careful => (Spec => P!NoneEndsUntold)
<1>1. SUFFICES ASSUME Careful
               PROVE  Spec => P!NoneEndsUntold
  OBVIOUS
<1>2. (scene = "tasks" => PathInv) /\ [Next]_vars
        => [\A c \in pf.chars \ pf'.chars :
              \/ P!LeaveMap
              \/ hold[c] # P!NoTask /\ hold'[c] = P!NoTask
              \/ /\ at # P!NoTask /\ P!Cur.chr = c
                 /\ \/ calling
                    \/ P!Cur.cb = None /\ P!Cur.phase \in {"finished", "failed"}]_(P!vars)
  <2>1. SUFFICES ASSUME PathInv, P!Next, NEW c \in pf.chars \ pf'.chars
                 PROVE  \/ P!LeaveMap
                        \/ hold[c] # P!NoTask /\ hold'[c] = P!NoTask
                        \/ /\ at # P!NoTask /\ P!Cur.chr = c
                           /\ \/ calling
                              \/ P!Cur.cb = None /\ P!Cur.phase \in {"finished", "failed"}
    BY TaskSteps
  <2>2. CASE P!Delete (c)
    <3>1. c \in Character
      BY <2>1 DEF PathInv, Pool, P!Manager
    <3>2. QED
      BY <1>1, <2>1, <2>2, <3>1 DEF P!Delete, P!Forgotten, Careful, PathInv
  <2>3. CASE at \in pf.locked /\ P!Cur.chr = c /\ (P!End \/ P!Return)
    <3>1. at # P!NoTask
      BY <2>1, <2>3, PathConstants DEF PathInv, Pool, P!Manager, P!Id, P!NoTask
    <3>2. QED
      BY <2>3, <3>1 DEF P!End, P!Return, P!Active, P!Cur
  <2>4. QED
    BY <1>1, <2>1, <2>2, <2>3, CharactersKept
<1>3. QED
  BY <1>1, <1>2, PathInvariant, PTL DEF Spec, P!NoneEndsUntold

\* The end of a task is told to its script, and to no other.
THEOREM AllTold == Careful => (Spec => EndsAreTold)
BY EndTold, HolderCalled DEF EndsAreTold, P!EndsAreTold

-----------------------------------------------------------------------------
(***************************************************************************)
(* Schedules. What the pool does for the scripts of characters, a schedule *)
(* does for the one that has the character now: whatever scripts there are *)
(* and however often a character is paused, a running schedule has an      *)
(* activity, which knows whether it is paused, and one alarm at most.      *)
(***************************************************************************)
\* The activity that is being stopped is not running: its place may be left
\* empty when it has been stopped.
StoppedIsOver == call = "stop" => ~ running

ScheduleInv == S!TypeOK /\ S!HasActivity /\ StoppedIsOver /\ S!PausedIsTold /\ S!OneAlarm

AlarmType == [at : 0 .. MaxTime, connected : BOOLEAN]

-----------------------------------------------------------------------------
(* What the helpers return. *)

\* Telling an activity something does not replace it.
LEMMA TellType ==
  ASSUME NEW s \in S!Activity \cup {S!NoActivity}, NEW w \in S!Told
  PROVE  /\ S!Tell (s, w) \in S!Activity \cup {S!NoActivity}
         /\ S!Tell (s, w).kind = s.kind
         /\ s.kind # None => S!Tell (s, w).told = w
BY DEF S!Tell, S!Activity, S!NoActivity

\* There is an activity if and only if it is of some kind.
LEMMA ActivityKind ==
  ASSUME S!ScheduleAssumption, NEW s \in S!Activity \cup {S!NoActivity}
  PROVE  s.kind # None <=> s \in S!Activity
BY DEF S!ScheduleAssumption, S!Activity, S!NoActivity

\* What create_instance leaves is an activity or none; a usable one is new.
LEMMA CreatedType ==
  ASSUME S!ScheduleAssumption, script \in S!Activity \cup {S!NoActivity}, NEW k \in Kind
  PROVE  /\ S!Created (k) \in S!Activity \cup {S!NoActivity}
         /\ S!Usable (k) => S!Created (k).kind # None /\ S!Created (k).told = "new"
         /\ ~ S!Usable (k) => S!Created (k) \in {script, S!NoActivity}
BY DEF S!ScheduleAssumption, S!Created, S!Usable, S!Activity, S!NoActivity, S!Told

\* set_alarm leaves one alarm.
LEMMA AlarmFacts ==
  ASSUME S!ScheduleAssumption, now \in 0 .. MaxTime,
         NEW d \in Delays, now + d <= MaxTime
  PROVE  S!Alarm (d) \in Seq (AlarmType) /\ Len (S!Alarm (d)) = 1
<1>1. now + d \in 0 .. MaxTime
  BY DEF S!ScheduleAssumption
<1>2. [at |-> now + d, connected |-> TRUE] \in AlarmType
  BY <1>1 DEF AlarmType
<1> QED
  BY <1>2 DEF S!Alarm

\* A list without or with one alarm has one connected alarm at most.
LEMMA FewAlarms ==
  ASSUME alarms' \in Seq (AlarmType), Len (alarms') <= 1
  PROVE  S!OneAlarm'
BY DEF S!OneAlarm, S!Connected

-----------------------------------------------------------------------------
(* The assignment of an activity, by the manager or from the queue. *)

LEMMA AssignFacts ==
  ASSUME S!ScheduleAssumption, ScheduleInv, NEW k \in Kind, NEW after \in Delays \cup {0},
         now + after <= MaxTime, ~ running, S!Assign (k, after)
  PROVE  /\ script' \in S!Activity \cup {S!NoActivity}
         /\ running' \in BOOLEAN
         /\ alarms' \in Seq (AlarmType)
         /\ S!HasActivity'
         /\ S!OneAlarm'
         /\ script'.kind # None /\ script'.told # "new" => script' = script
<1>1. script \in S!Activity \cup {S!NoActivity} /\ now \in 0 .. MaxTime /\ alarms \in Seq (AlarmType)
  BY DEF ScheduleInv, S!TypeOK, AlarmType
<1>2. CASE S!Usable (k)
  <2>1. script' = S!Created (k) /\ running' = TRUE
    BY <1>2 DEF S!Assign
  <2>2. script' \in S!Activity \cup {S!NoActivity} /\ script'.kind # None /\ script'.told = "new"
    BY <1>1, <1>2, <2>1, CreatedType
  <2>3. alarms' \in Seq (AlarmType) /\ Len (alarms') <= 1
    <3>1. CASE after = 0
      BY <1>2, <3>1 DEF S!Assign
    <3>2. CASE after # 0
      <4>1. alarms' = S!Alarm (after) /\ after \in Delays
        BY <1>2, <3>2 DEF S!Assign
      <4>2. S!Alarm (after) \in Seq (AlarmType) /\ Len (S!Alarm (after)) = 1
        BY <1>1, <4>1, AlarmFacts
      <4> QED
        BY <4>1, <4>2
    <3> QED
      BY <3>1, <3>2
  <2>4. S!OneAlarm'
    BY <2>3, FewAlarms
  <2>5. S!HasActivity'
    BY <2>2 DEF S!HasActivity
  <2>6. running' \in BOOLEAN
    BY <2>1
  <2> QED
    BY <2>2, <2>3, <2>4, <2>5, <2>6
<1>3. CASE ~ S!Usable (k)
  <2>1. script' = S!Created (k) /\ running' = FALSE /\ alarms' = alarms
    BY <1>3 DEF S!Assign
  <2>2. script' \in {script, S!NoActivity} /\ script' \in S!Activity \cup {S!NoActivity}
    BY <1>1, <1>3, <2>1, CreatedType
  <2>3. S!OneAlarm'
    BY <2>1 DEF ScheduleInv, S!OneAlarm, S!Connected
  <2>4. script'.kind # None /\ script'.told # "new" => script' = script
    BY <2>2 DEF S!NoActivity
  <2>5. S!HasActivity' /\ running' \in BOOLEAN
    BY <2>1 DEF S!HasActivity
  <2> QED
    BY <1>1, <2>1, <2>2, <2>3, <2>4, <2>5
<1> QED
  BY <1>2, <1>3

-----------------------------------------------------------------------------
(* Every action preserves ScheduleInv. *)

LEMMA ScheduleInit ==
  ASSUME S!ScheduleAssumption, S!Init
  PROVE  ScheduleInv
<1>1. S!TypeOK
  <2>1. paused \in 0 .. PauseMod - 1 /\ now \in 0 .. MaxTime
    BY DEF S!Init, S!ScheduleAssumption
  <2>2. alarms \in Seq ([at : 0 .. MaxTime, connected : BOOLEAN])
    BY DEF S!Init
  <2> QED
    BY <2>1, <2>2 DEF S!Init, S!TypeOK, S!Call
<1>2. S!HasActivity /\ StoppedIsOver /\ S!PausedIsTold
  BY DEF S!Init, S!HasActivity, StoppedIsOver, S!PausedIsTold, S!NoActivity
<1>3. S!OneAlarm
  BY DEF S!Init, S!OneAlarm, S!Connected
<1> QED
  BY <1>1, <1>2, <1>3 DEF ScheduleInv

LEMMA PausingInv ==
  ASSUME S!ScheduleAssumption, ScheduleInv, S!Deactivate \/ S!Activate
  PROVE  ScheduleInv'
<1>1. /\ script \in S!Activity \cup {S!NoActivity} /\ paused \in 0 .. PauseMod - 1
      /\ "paused" \in S!Told /\ "going" \in S!Told
  BY DEF ScheduleInv, S!TypeOK, S!Told
<1>2. CASE S!Deactivate
  <2>1. paused' = paused + 1 /\ paused' \in 0 .. PauseMod - 1 /\ paused' > 0
    BY <1>1, <1>2 DEF S!Deactivate, S!ScheduleAssumption
  <2>2. /\ script' \in S!Activity \cup {S!NoActivity} /\ script'.kind = script.kind
        /\ script.kind # None => script'.told = IF paused = 0 THEN "paused" ELSE script.told
    BY <1>1, <1>2, TellType DEF S!Deactivate
  <2>3. S!PausedIsTold'
    BY <1>1, <1>2, <2>1, <2>2 DEF ScheduleInv, S!PausedIsTold, S!Deactivate
  <2> QED
    BY <1>2, <2>1, <2>2, <2>3 DEF S!Deactivate, ScheduleInv, S!TypeOK, S!HasActivity, StoppedIsOver,
                                  S!OneAlarm, S!Connected, S!clock
<1>3. CASE S!Activate
  <2>1. paused' = paused - 1 /\ paused' \in 0 .. PauseMod - 1
    BY <1>1, <1>3 DEF S!Activate, S!ScheduleAssumption
  <2>2. /\ script' \in S!Activity \cup {S!NoActivity} /\ script'.kind = script.kind
        /\ script.kind # None => script'.told = IF paused = 1 THEN "going" ELSE script.told
    BY <1>1, <1>3, TellType DEF S!Activate
  <2>3. S!PausedIsTold'
    BY <1>1, <1>3, <2>1, <2>2 DEF ScheduleInv, S!PausedIsTold, S!Activate
  <2> QED
    BY <1>3, <2>1, <2>2, <2>3 DEF S!Activate, ScheduleInv, S!TypeOK, S!HasActivity, StoppedIsOver,
                                  S!OneAlarm, S!Connected, S!clock
<1> QED
  BY <1>2, <1>3

LEMMA StopInv ==
  ASSUME ScheduleInv, S!Stop
  PROVE  ScheduleInv'
BY DEF S!Stop, ScheduleInv, S!TypeOK, S!HasActivity, StoppedIsOver, S!PausedIsTold, S!OneAlarm, S!Connected, S!clock

LEMMA QueueInv ==
  ASSUME S!ScheduleAssumption, ScheduleInv,
         \/ \E k \in Kind : S!QueueSchedule (k)
         \/ \E d \in Delays : S!QueueAlarm (d)
  PROVE  ScheduleInv'
<1>1. queued' \in [kind : Kind, after : Delays \cup {0}] \cup {S!NoQueue}
  <2>1. CASE \E k \in Kind : S!QueueSchedule (k)
    BY <2>1 DEF S!QueueSchedule
  <2>2. CASE \E d \in Delays : S!QueueAlarm (d)
    BY <2>2 DEF S!QueueAlarm, ScheduleInv, S!TypeOK
  <2> QED
    BY <2>1, <2>2
<1>2. UNCHANGED <<paused, running, script, call, alarms, now, ringing>>
  BY DEF S!QueueSchedule, S!QueueAlarm, S!clock
<1> QED
  BY <1>1, <1>2 DEF ScheduleInv, S!TypeOK, S!HasActivity, StoppedIsOver, S!PausedIsTold, S!OneAlarm, S!Connected

LEMMA SetAlarmInv ==
  ASSUME S!ScheduleAssumption, ScheduleInv, NEW d \in Delays, S!SetAlarm (d)
  PROVE  ScheduleInv'
<1>1. alarms' = S!Alarm (d) /\ now \in 0 .. MaxTime /\ now + d <= MaxTime
  BY DEF S!SetAlarm, ScheduleInv, S!TypeOK
<1>2. S!Alarm (d) \in Seq (AlarmType) /\ Len (S!Alarm (d)) = 1
  BY <1>1, AlarmFacts
<1>3. alarms' \in Seq (AlarmType) /\ Len (alarms') <= 1
  BY <1>1, <1>2
<1>4. S!OneAlarm'
  BY <1>3, FewAlarms
<1> QED
  BY <1>3, <1>4 DEF S!SetAlarm, ScheduleInv, S!TypeOK, S!HasActivity, StoppedIsOver, S!PausedIsTold,
                    AlarmType, S!clock

LEMMA SetScheduleInv ==
  ASSUME S!ScheduleAssumption, ScheduleInv, NEW k \in Kind, S!SetSchedule (k)
  PROVE  ScheduleInv'
<1>1. now + 0 <= MaxTime /\ ~ running /\ S!Assign (k, 0) /\ call = "run"
      /\ UNCHANGED <<paused, queued, call, now, ringing>>
  BY DEF S!SetSchedule, ScheduleInv, S!TypeOK, S!clock, S!ScheduleAssumption
<1>2. /\ script' \in S!Activity \cup {S!NoActivity} /\ running' \in BOOLEAN
      /\ alarms' \in Seq (AlarmType) /\ S!HasActivity' /\ S!OneAlarm'
      /\ script'.kind # None /\ script'.told # "new" => script' = script
  BY <1>1, AssignFacts
<1> QED
  BY <1>1, <1>2 DEF ScheduleInv, S!TypeOK, StoppedIsOver, S!PausedIsTold, AlarmType

LEMMA ActivateQueuedInv ==
  ASSUME S!ScheduleAssumption, ScheduleInv, S!ActivateQueued
  PROVE  ScheduleInv'
<1>1. /\ ~ running /\ call = "none" /\ queued \in [kind : Kind, after : Delays \cup {0}]
      /\ now + queued.after <= MaxTime /\ S!Assign (queued.kind, queued.after)
      /\ queued' = S!NoQueue /\ UNCHANGED <<paused, now, ringing>>
  BY DEF S!ActivateQueued, S!Idle, ScheduleInv, S!TypeOK, S!clock
<1>2. /\ script' \in S!Activity \cup {S!NoActivity} /\ running' \in BOOLEAN
      /\ alarms' \in Seq (AlarmType) /\ S!HasActivity' /\ S!OneAlarm'
      /\ script'.kind # None /\ script'.told # "new" => script' = script
  BY <1>1, AssignFacts
<1>3. call' \in {"none", "stop", "run"} /\ (call' = "stop" => ~ running')
  BY DEF S!ActivateQueued, S!ToStop
<1> QED
  BY <1>1, <1>2, <1>3 DEF ScheduleInv, S!TypeOK, StoppedIsOver, S!PausedIsTold, AlarmType, S!Call

LEMMA CallsInv ==
  ASSUME S!ScheduleAssumption, ScheduleInv, S!Renew \/ S!ReturnStop \/ S!ReturnRun \/ S!ReturnStart
  PROVE  ScheduleInv'
<1>1. script \in S!Activity \cup {S!NoActivity} /\ "paused" \in S!Told /\ "going" \in S!Told
  BY DEF ScheduleInv, S!TypeOK, S!Told
<1>2. CASE S!Renew
  BY <1>2 DEF S!Renew, S!Idle, S!ToStop, ScheduleInv, S!TypeOK, S!Call, S!HasActivity, StoppedIsOver,
              S!PausedIsTold, S!OneAlarm, S!Connected, S!clock
<1>3. CASE S!ReturnStop
  BY <1>3 DEF S!ReturnStop, ScheduleInv, S!TypeOK, S!Call, S!NoActivity, S!HasActivity, StoppedIsOver,
              S!PausedIsTold, S!OneAlarm, S!Connected, S!clock
<1>4. CASE S!ReturnRun
  <2>1. /\ script' \in S!Activity \cup {S!NoActivity} /\ script'.kind = script.kind
        /\ script.kind # None => script'.told = "going"
    BY <1>1, <1>4, TellType DEF S!ReturnRun
  <2> QED
    BY <1>4, <2>1 DEF S!ReturnRun, ScheduleInv, S!TypeOK, S!Call, S!HasActivity, StoppedIsOver,
                      S!PausedIsTold, S!OneAlarm, S!Connected, S!clock
<1>5. CASE S!ReturnStart
  <2>1. /\ script' \in S!Activity \cup {S!NoActivity} /\ script'.kind = script.kind
        /\ script.kind # None => script'.told = IF paused > 0 THEN "paused" ELSE script.told
    BY <1>1, <1>5, TellType DEF S!ReturnStart
  <2>2. S!PausedIsTold'
    BY <1>5, <2>1 DEF S!ReturnStart, ScheduleInv, S!TypeOK, S!PausedIsTold
  <2> QED
    BY <1>5, <2>1, <2>2 DEF S!ReturnStart, ScheduleInv, S!TypeOK, S!Call, S!HasActivity, StoppedIsOver,
                            S!OneAlarm, S!Connected, S!clock
<1> QED
  BY <1>2, <1>3, <1>4, <1>5

\* One alarm less: those behind it move up.
LEMMA OnAlarmInv ==
  ASSUME S!ScheduleAssumption, ScheduleInv, NEW i \in DOMAIN alarms, S!OnAlarm (i)
  PROVE  ScheduleInv'
<1>1. alarms \in Seq (AlarmType) /\ i \in 1 .. Len (alarms)
  BY DEF ScheduleInv, S!TypeOK, AlarmType
<1> DEFINE from(j) == IF j < i THEN j ELSE j + 1
<1>2. Len (alarms) - 1 \in Nat
  BY <1>1
<1>3. \A j \in 1 .. Len (alarms) - 1 : from(j) \in 1 .. Len (alarms)
  BY <1>1
<1>4. alarms' = [j \in 1 .. Len (alarms) - 1 |-> alarms[from(j)]]
  BY DEF S!OnAlarm
<1>5. alarms' \in Seq (AlarmType) /\ Len (alarms') = Len (alarms) - 1
  BY <1>1, <1>2, <1>3, <1>4
<1>6. S!OneAlarm'
  <2> SUFFICES ASSUME NEW j \in S!Connected', NEW k \in S!Connected' PROVE j = k
    BY DEF S!OneAlarm
  <2>1. j \in 1 .. Len (alarms) - 1 /\ k \in 1 .. Len (alarms) - 1
    BY <1>5 DEF S!Connected
  <2>2. from(j) \in S!Connected /\ from(k) \in S!Connected
    BY <1>1, <1>3, <1>4, <2>1 DEF S!Connected
  <2>3. from(j) = from(k)
    BY <2>2 DEF ScheduleInv, S!OneAlarm
  <2> QED
    BY <1>1, <2>1, <2>3
<1>7. /\ UNCHANGED <<paused, script, queued, call, now, ringing>>
      /\ running' \in BOOLEAN /\ (running' => running)
  BY DEF S!OnAlarm, ScheduleInv, S!TypeOK, S!clock
<1> QED
  BY <1>5, <1>6, <1>7 DEF ScheduleInv, S!TypeOK, S!HasActivity, StoppedIsOver, S!PausedIsTold, AlarmType

LEMMA ClockInv ==
  ASSUME S!ScheduleAssumption, ScheduleInv, S!Tick \/ S!EndRinging
  PROVE  ScheduleInv'
<1>1. now' \in 0 .. MaxTime
  BY DEF S!Tick, S!EndRinging, ScheduleInv, S!TypeOK, S!ScheduleAssumption
<1>2. ringing' \in BOOLEAN
  BY DEF S!Tick, S!EndRinging
<1>3. UNCHANGED <<paused, running, script, queued, call, alarms>>
  BY DEF S!Tick, S!EndRinging
<1> QED
  BY <1>1, <1>2, <1>3 DEF ScheduleInv, S!TypeOK, S!HasActivity, StoppedIsOver, S!PausedIsTold,
                          S!OneAlarm, S!Connected

\* Of the alarms that are there after loading only the first is connected.
LEMMA LoadInv ==
  ASSUME S!ScheduleAssumption, ScheduleInv, S!Reload
  PROVE  ScheduleInv'
<1>1. /\ script \in S!Activity \cup {S!NoActivity} /\ "paused" \in S!Told /\ "going" \in S!Told
      /\ alarms \in Seq (AlarmType) /\ now \in 0 .. MaxTime /\ call = "none"
  BY DEF ScheduleInv, S!TypeOK, AlarmType, S!Told, S!Reload, S!Idle
<1>2. PICK mine \in S!SetByStart : alarms' = S!Reconnected (mine \o S!Loaded (alarms))
  BY DEF S!Reload
<1>3. mine \in Seq (AlarmType) /\ Len (mine) <= 1
  <2>1. CASE mine = <<>>
    BY <2>1
  <2>2. CASE mine # <<>>
    <3>1. PICK d \in Delays : now + d <= MaxTime /\ mine = S!Alarm (d)
      BY <1>2, <2>2 DEF S!SetByStart
    <3>2. S!Alarm (d) \in Seq (AlarmType) /\ Len (S!Alarm (d)) = 1
      BY <1>1, <3>1, AlarmFacts
    <3> QED
      BY <3>1, <3>2
  <2> QED
    BY <2>1, <2>2
<1> DEFINE old == S!Loaded (alarms)
           all == mine \o old
<1>4. /\ old \in Seq (AlarmType) /\ Len (old) = Len (alarms)
      /\ \A i \in 1 .. Len (old) : old[i].connected = FALSE
  <2>1. \A i \in 1 .. Len (alarms) :
          /\ [alarms[i] EXCEPT !.connected = FALSE] \in AlarmType
          /\ [alarms[i] EXCEPT !.connected = FALSE].connected = FALSE
    <3>1. \A a \in AlarmType : /\ [a EXCEPT !.connected = FALSE] \in AlarmType
                              /\ [a EXCEPT !.connected = FALSE].connected = FALSE
      BY DEF AlarmType
    <3> QED
      BY <1>1, <3>1
  <2>2. old = [i \in 1 .. Len (alarms) |-> [alarms[i] EXCEPT !.connected = FALSE]]
    BY <1>1 DEF S!Loaded
  <2> HIDE DEF old
  <2>3. old \in Seq (AlarmType) /\ Len (old) = Len (alarms)
    BY <1>1, <2>1, <2>2
  <2> QED
    BY <2>1, <2>2, <2>3
<1> HIDE DEF old
<1>5. /\ all \in Seq (AlarmType) /\ Len (all) = Len (mine) + Len (old)
      /\ \A i \in 1 .. Len (all) : i > Len (mine) => all[i] = old[i - Len (mine)]
  BY <1>3, <1>4
<1>6. \A i \in 2 .. Len (all) : all[i].connected = FALSE
  <2> SUFFICES ASSUME NEW i \in 2 .. Len (all) PROVE all[i].connected = FALSE
    OBVIOUS
  <2>1. Len (mine) \in Nat /\ Len (old) \in Nat
    BY <1>3, <1>4
  <2>2. i - Len (mine) \in 1 .. Len (old) /\ all[i] = old[i - Len (mine)]
    BY <1>3, <1>5, <2>1
  <2> QED
    BY <1>4, <2>2
<1>7. alarms' = S!Reconnected (all)
  BY <1>2 DEF old
<1> HIDE DEF all
<1>8. alarms' \in Seq (AlarmType) /\ \A i \in 2 .. Len (alarms') : alarms'[i].connected = FALSE
  <2>1. CASE all = <<>>
    BY <1>7, <2>1 DEF S!Reconnected
  <2>2. CASE all # <<>>
    <3>1. alarms' = [all EXCEPT ![1].connected = TRUE] /\ 1 \in 1 .. Len (all)
      BY <1>5, <1>7, <2>2 DEF S!Reconnected
    <3>2. all[1] \in AlarmType
      BY <1>5, <3>1
    <3>3. [all[1] EXCEPT !.connected = TRUE] \in AlarmType
      BY <3>2 DEF AlarmType
    <3>4. /\ alarms' \in Seq (AlarmType) /\ Len (alarms') = Len (all)
          /\ \A i \in 2 .. Len (all) : alarms'[i] = all[i]
      BY <1>5, <3>1, <3>3
    <3> QED
      BY <1>6, <3>4
  <2> QED
    BY <2>1, <2>2
<1>9. S!OneAlarm'
  <2>1. \A i \in S!Connected' : i \in 1 .. Len (alarms') /\ ~ (i \in 2 .. Len (alarms'))
    BY <1>8 DEF S!Connected
  <2>2. \A i \in S!Connected' : i = 1
    BY <1>8, <2>1
  <2> QED
    BY <2>2 DEF S!OneAlarm
<1>10. queued' \in [kind : Kind, after : Delays \cup {0}] \cup {S!NoQueue}
  BY DEF S!Reload, S!QueuedByStart, ScheduleInv, S!TypeOK
<1>11. /\ script' \in S!Activity \cup {S!NoActivity} /\ script'.kind = script.kind
       /\ script.kind # None => script'.told = IF paused > 0 THEN "paused" ELSE "going"
  BY <1>1, TellType DEF S!Reload
<1>12. UNCHANGED <<paused, running, call, now, ringing>>
  BY DEF S!Reload, S!clock
<1>13. S!PausedIsTold'
  BY <1>1, <1>11, <1>12 DEF S!PausedIsTold, ScheduleInv, S!TypeOK
<1> QED
  BY <1>8, <1>9, <1>10, <1>11, <1>12, <1>13
  DEF ScheduleInv, S!TypeOK, S!HasActivity, StoppedIsOver, AlarmType

-----------------------------------------------------------------------------
(* The theorems. *)

LEMMA ScheduleStep ==
  ASSUME S!ScheduleAssumption, ScheduleInv, [S!Next]_(S!vars)
  PROVE  ScheduleInv'
<1>1. CASE S!Script
  BY <1>1, PausingInv, StopInv, QueueInv, SetAlarmInv, SetScheduleInv DEF S!Script
<1>2. CASE S!Update
  BY <1>2, ActivateQueuedInv, CallsInv DEF S!Update
<1>3. CASE S!Time
  BY <1>3, ClockInv, OnAlarmInv DEF S!Time
<1>4. CASE S!Reload
  BY <1>4, LoadInv
<1>5. CASE UNCHANGED S!vars
  BY <1>5 DEF S!vars, S!clock, ScheduleInv, S!TypeOK, S!HasActivity, StoppedIsOver, S!PausedIsTold,
              S!OneAlarm, S!Connected
<1> QED
  BY <1>1, <1>2, <1>3, <1>4, <1>5 DEF S!Next

\* The strengthened invariant is one.
LEMMA ScheduleInvariant == Spec => [](scene = "schedule" => ScheduleInv)
<1> DEFINE Inv == scene = "schedule" => ScheduleInv
<1>1. Init => Inv
  BY ScheduleAssumption, ScheduleInit DEF Init
<1>2. Inv /\ [Next]_vars => Inv'
  <2> SUFFICES ASSUME Inv, [Next]_vars, scene' = "schedule"
               PROVE  ScheduleInv'
    OBVIOUS
  <2>1. scene = "schedule" /\ [S!Next]_(S!vars)
    BY DEF Next, vars, PathTasksStep, SchedulesStep, schedulesVars, S!vars, S!clock
  <2>2. QED
    BY <2>1, ScheduleAssumption, ScheduleStep
<1>3. QED
  BY <1>1, <1>2, PTL DEF Spec

\* The state of a schedule is well typed; its pause level does not wrap
\* around as long as nobody pauses it when it is at the limit.
THEOREM ScheduleTypes == Spec => [](scene = "schedule" => S!TypeOK)
BY ScheduleInvariant, PTL DEF ScheduleInv

\* A running schedule always has an activity, whatever scripts fail to load.
THEOREM NeverIdle == Spec => [](scene = "schedule" => S!HasActivity)
BY ScheduleInvariant, PTL DEF ScheduleInv

\* Activities are paused exactly if their character is, however pausing is
\* nested and mixed with changes of the activity.
THEOREM PauseKnown == Spec => [](scene = "schedule" => S!PausedIsTold)
BY ScheduleInvariant, PTL DEF ScheduleInv

\* A running schedule has an activity that knows whether it is to pause.
THEOREM ActivitiesAgree == Spec => []ActivityAgrees
<1>1. (scene = "schedule" => ScheduleInv) => ActivityAgrees
  BY DEF ActivityAgrees, S!ActivityAgrees, ScheduleInv
<1>2. QED
  BY <1>1, ScheduleInvariant, PTL

\* At most one alarm can end an activity, also after loading.
THEOREM SingleAlarm == Spec => []OneAlarm
<1>1. (scene = "schedule" => ScheduleInv) => OneAlarm
  BY DEF OneAlarm, ScheduleInv
<1>2. QED
  BY <1>1, ScheduleInvariant, PTL
=============================================================================

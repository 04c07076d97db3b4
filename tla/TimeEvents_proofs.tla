-------------------------- MODULE TimeEvents_proofs --------------------------
(***************************************************************************)
(* Proofs about TimeEvents, for any number of listeners, factories and     *)
(* pause levels and any length of game time: the state is well typed, and  *)
(* if scripts are well behaved no reference to a deleted listener is left, *)
(* the list of the time event manager has what it should have in the right *)
(* order, and the alarms that go off are the ones that should.             *)
(***************************************************************************)
EXTENDS TimeEvents, ListLemmas, TLAPS

-----------------------------------------------------------------------------
(***************************************************************************)
(* The operations on a single listener, whatever the event manager.        *)
(***************************************************************************)

\* The part of the state that operations on a single listener change.
ListenersTypeOK ==
  /\ life \in [Listener -> {"unborn", "live", "freed"}]
  /\ owner \in [Listener -> Factory \cup {NoFactory}]
  /\ repeat \in [Listener -> Int]
  /\ paused \in [Listener -> 0 .. PauseMod - 1]
  /\ registered \in [Listener -> BOOLEAN]
  /\ queue \in Seq(Listener)

LEMMA FactoryInitType == FactoryInit => FactoryTypeOK
BY FactoryAssumption DEF FactoryInit, FactoryTypeOK, NoSweep

\* Pause levels stay within the width of their counter.
LEMMA LevelUp == ASSUME NEW n \in 0 .. PauseMod - 1
                 PROVE  (n + 1) % PauseMod \in 0 .. PauseMod - 1
BY FactoryAssumption

LEMMA LevelDown == ASSUME NEW n \in 0 .. PauseMod - 1
                   PROVE  (n - 1) % PauseMod \in 0 .. PauseMod - 1
BY FactoryAssumption

LEMMA LevelUpExact == ASSUME NEW n \in 0 .. PauseMod - 1, n < PauseMod - 1
                      PROVE  (n + 1) % PauseMod = n + 1
BY FactoryAssumption

LEMMA PauseListenerType ==
  ASSUME NEW l \in Listener, FactoryTypeOK, PauseListener(l)
  PROVE  ListenersTypeOK'
<1>1. registered' \in [Listener -> BOOLEAN] /\ queue' \in Seq(Listener)
  <2>1. queue \in Seq(Listener) /\ RemoveFirst(queue, l) \in Seq(Listener)
    BY RemoveFirstType DEF FactoryTypeOK
  <2>2. QED
    BY <2>1 DEF FactoryTypeOK, PauseListener, ManagerRemove
<1>2. paused' \in [Listener -> 0 .. PauseMod - 1]
  <2>1. paused[l] \in 0 .. PauseMod - 1
    BY DEF FactoryTypeOK
  <2>2. (paused[l] + 1) % PauseMod \in 0 .. PauseMod - 1
    BY <2>1, LevelUp
  <2>3. QED
    BY <2>2 DEF FactoryTypeOK, PauseListener
<1>3. QED
  BY <1>1, <1>2 DEF FactoryTypeOK, ListenersTypeOK, PauseListener

LEMMA ResumeListenerType ==
  ASSUME NEW l \in Listener, NEW q \in Seq(Listener), FactoryTypeOK, ResumeListener(l, q)
  PROVE  ListenersTypeOK'
<1>1. registered' \in [Listener -> BOOLEAN] /\ queue' \in Seq(Listener)
  BY DEF FactoryTypeOK, ResumeListener, ManagerAdd
<1>2. paused' \in [Listener -> 0 .. PauseMod - 1]
  BY FactoryAssumption DEF FactoryTypeOK, ResumeListener
<1>3. QED
  BY <1>1, <1>2 DEF FactoryTypeOK, ListenersTypeOK, ResumeListener

LEMMA DeleteListenerType ==
  ASSUME NEW l \in Listener, NEW q \in Seq(Listener), FactoryTypeOK, DeleteListener(l, q)
  PROVE  ListenersTypeOK'
<1>1. queue' \in Seq(Listener)
  BY RemoveFirstType DEF DeleteListener
<1>2. QED
  BY <1>1 DEF FactoryTypeOK, ListenersTypeOK, DeleteListener

LEMMA DestroyListenerType ==
  ASSUME NEW l \in Listener, FactoryTypeOK, DestroyListener(l)
  PROVE  FactoryTypeOK'
BY DEF FactoryTypeOK, DestroyListener

LEMMA AddListenerType ==
  ASSUME NEW f \in Factory, NEW l \in Listener, NEW r \in Int, NEW q \in Seq(Listener),
         FactoryTypeOK, AddListener(f, l, r, q)
  PROVE  FactoryTypeOK'
<1>1. registered' \in [Listener -> BOOLEAN] /\ queue' \in Seq(Listener)
  BY DEF FactoryTypeOK, AddListener, ManagerAdd
<1>2. QED
  BY <1>1 DEF FactoryTypeOK, AddListener

\* The loops over a factory's listeners.
LEMMA SweepType ==
  ASSUME NEW op \in {"pause", "resume", "delete"}, NEW S \in SUBSET Listener
  PROVE  Sweep(op, S) \in [op : {"none", "pause", "resume", "delete"}, todo : SUBSET Listener]
BY DEF Sweep, NoSweep

LEMMA FactoryOpType ==
  ASSUME NEW f \in Factory, FactoryTypeOK,
         PauseFactory(f) \/ ResumeFactory(f) \/ ClearFactory(f) \/ DeleteFactory(f)
  PROVE  FactoryTypeOK'
<1>0. Members(f) \in SUBSET Listener /\ fpaused[f] \in 0 .. PauseMod - 1
  BY DEF Members, FactoryTypeOK
<1>1. CASE PauseFactory(f)
  <2>1. (fpaused[f] + 1) % PauseMod \in 0 .. PauseMod - 1
    BY <1>0, LevelUp
  <2>2. sweep' \in [op : {"none", "pause", "resume", "delete"}, todo : SUBSET Listener]
    BY <1>0, <1>1, SweepType DEF PauseFactory
  <2>3. QED
    BY <1>1, <2>1, <2>2 DEF FactoryTypeOK, PauseFactory
<1>2. CASE ResumeFactory(f)
  <2>1. (fpaused[f] - 1) % PauseMod \in 0 .. PauseMod - 1
    BY <1>0, LevelDown
  <2>2. sweep' \in [op : {"none", "pause", "resume", "delete"}, todo : SUBSET Listener]
    BY <1>0, <1>2, SweepType DEF ResumeFactory
  <2>3. QED
    BY <1>2, <2>1, <2>2 DEF FactoryTypeOK, ResumeFactory
<1>3. CASE ClearFactory(f)
  BY <1>3, FactoryAssumption DEF FactoryTypeOK, ClearFactory
<1>4. CASE DeleteFactory(f)
  <2>1. sweep' \in [op : {"none", "pause", "resume", "delete"}, todo : SUBSET Listener]
    BY <1>0, <1>4, SweepType DEF DeleteFactory
  <2>2. QED
    BY <1>4, <2>1, FactoryAssumption DEF FactoryTypeOK, DeleteFactory
<1>5. QED
  BY <1>1, <1>2, <1>3, <1>4

LEMMA SweepListenerType ==
  ASSUME NEW l \in Listener, NEW q \in Seq(Listener), FactoryTypeOK, SweepListener(l, q)
  PROVE  FactoryTypeOK'
<1>1. ListenersTypeOK'
  BY PauseListenerType, ResumeListenerType, DeleteListenerType
     DEF SweepListener, FactoryTypeOK
<1>2. sweep.op \in {"pause", "resume", "delete"} /\ sweep.todo \ {l} \in SUBSET Listener
  BY DEF SweepListener, FactoryTypeOK
<1>3. sweep' \in [op : {"none", "pause", "resume", "delete"}, todo : SUBSET Listener]
  BY <1>2, SweepType DEF SweepListener
<1>4. QED
  BY <1>1, <1>3 DEF SweepListener, FactoryTypeOK, ListenersTypeOK

-----------------------------------------------------------------------------
(***************************************************************************)
(* The list.                                                               *)
(***************************************************************************)

\* time_event_manager::add finds a place for every listener: behind those
\* that are due no earlier, in front of one that is.
LEMMA InsertPosFound ==
  ASSUME NEW q \in Seq(Listener), NEW l \in Listener, NEW at \in [Listener -> Nat]
  PROVE  /\ InsertPos(q, l, at) \in 1 .. Len(q) + 1
         /\ \A i \in 1 .. InsertPos(q, l, at) - 1 : at[l] <= at[q[i]]
         /\ InsertPos(q, l, at) <= Len(q) => at[l] > at[q[InsertPos(q, l, at)]]
<1> DEFINE T == {p \in 1 .. Len(q) + 1 : p <= Len(q) => at[l] > at[q[p]]}
<1>1. Len(q) \in Nat /\ \A i \in 1 .. Len(q) : q[i] \in Listener
  BY LenProperties
<1>2. Len(q) + 1 \in T /\ T \subseteq Nat
  BY <1>1
<1> HIDE DEF T
<1>3. PICK m \in T : \A k \in T : m <= k
  BY <1>2, LeastNatural
<1>4. ASSUME NEW i \in 1 .. m - 1
      PROVE  at[l] <= at[q[i]]
  <2>1. i \in 1 .. Len(q) /\ i \notin T
    BY <1>1, <1>3 DEF T
  <2>2. at[l] \in Nat /\ at[q[i]] \in Nat
    BY <1>1, <2>1
  <2>3. QED
    BY <1>1, <2>1, <2>2 DEF T
<1>5. m \in 1 .. Len(q) + 1 /\ (m <= Len(q) => at[l] > at[q[m]])
  BY <1>3 DEF T
<1>6. QED
  BY <1>4, <1>5 DEF InsertPos

LEMMA InsertType ==
  ASSUME NEW q \in Seq(Listener), NEW l \in Listener, NEW at \in [Listener -> Nat]
  PROVE  Insert(q, l, at) \in Seq(Listener)
BY InsertPosFound, InsertAtElements DEF Insert

\* The queue with listener l at position p.
LEMMA ListenerInserted ==
  ASSUME NEW q \in Seq(Listener), NEW l \in Listener, NEW p \in 1 .. Len(q) + 1
  PROVE  /\ InsertAt(q, p, l) \in Seq(Listener) /\ DOMAIN InsertAt(q, p, l) = 1 .. Len(q) + 1
         /\ \A i \in 1 .. Len(q) + 1 :
              InsertAt(q, p, l)[i] = IF i < p THEN q[i] ELSE IF i = p THEN l ELSE q[i - 1]
BY InsertAtElements, LenProperties

\* Adding a listener to the list keeps it free of duplicates and sorted.
LEMMA InsertListener ==
  ASSUME NEW q \in Seq(Listener), NEW l \in Listener, NEW at \in [Listener -> Nat],
         Distinct(q), l \notin ToSet(q), Descending(q, at)
  PROVE  /\ ToSet(Insert(q, l, at)) = ToSet(q) \cup {l}
         /\ Distinct(Insert(q, l, at))
         /\ Descending(Insert(q, l, at), at)
<1> DEFINE p == InsertPos(q, l, at)
           t == InsertAt(q, p, l)
<1>1. /\ p \in 1 .. Len(q) + 1
      /\ \A i \in 1 .. p - 1 : at[l] <= at[q[i]]
      /\ p <= Len(q) => at[l] > at[q[p]]
  BY InsertPosFound
<1> HIDE DEF p
<1>2. /\ Len(q) \in Nat
      /\ \A i \in 1 .. Len(q) : q[i] \in Listener /\ at[q[i]] \in Nat
      /\ at[l] \in Nat
  BY LenProperties
<1>3. \A i, j \in 1 .. Len(q) : i < j => at[q[i]] >= at[q[j]]
  BY LenProperties DEF Descending
<1>4. ToSet(t) = ToSet(q) \cup {l} /\ Distinct(t)
  BY <1>1, InsertNew
<1>5. /\ t \in Seq(Listener) /\ DOMAIN t = 1 .. Len(q) + 1
      /\ \A i \in 1 .. Len(q) + 1 : t[i] = IF i < p THEN q[i] ELSE IF i = p THEN l ELSE q[i - 1]
  BY <1>1, ListenerInserted
<1>6. \A i \in 1 .. Len(q) : i >= p => at[l] > at[q[i]]
  BY <1>1, <1>2, <1>3
<1> HIDE DEF t
<1>7. Descending(t, at)
  <2>1. SUFFICES ASSUME NEW i \in 1 .. Len(q) + 1, NEW j \in 1 .. Len(q) + 1, i < j
                 PROVE  at[t[i]] >= at[t[j]]
    BY <1>5 DEF Descending
  <2>2. CASE j < p
    <3>1. t[i] = q[i] /\ t[j] = q[j] /\ i \in 1 .. Len(q) /\ j \in 1 .. Len(q)
      BY <1>1, <1>2, <1>5, <2>1, <2>2
    <3>2. QED
      BY <1>3, <2>1, <3>1
  <2>3. CASE j = p
    <3>1. t[i] = q[i] /\ t[j] = l /\ i \in 1 .. p - 1 /\ i \in 1 .. Len(q)
      BY <1>1, <1>2, <1>5, <2>1, <2>3
    <3>2. QED
      BY <1>1, <1>2, <3>1
  <2>4. CASE j > p /\ i < p
    <3>1. /\ t[i] = q[i] /\ t[j] = q[j - 1]
          /\ i \in 1 .. Len(q) /\ j - 1 \in 1 .. Len(q)
          /\ i <= p - 1 /\ j - 1 >= p
      BY <1>1, <1>2, <1>5, <2>1, <2>4
    <3>2. at[l] <= at[q[i]] /\ at[l] > at[q[j - 1]]
      BY <1>1, <1>6, <3>1
    <3>3. QED
      BY <1>2, <3>1, <3>2
  <2>5. CASE j > p /\ i = p
    <3>1. t[i] = l /\ t[j] = q[j - 1] /\ j - 1 \in 1 .. Len(q) /\ j - 1 >= p
      BY <1>1, <1>2, <1>5, <2>1, <2>5
    <3>2. QED
      BY <1>2, <1>6, <3>1
  <2>6. CASE j > p /\ i > p
    <3>1. /\ t[i] = q[i - 1] /\ t[j] = q[j - 1]
          /\ i - 1 \in 1 .. Len(q) /\ j - 1 \in 1 .. Len(q) /\ i - 1 < j - 1
      BY <1>1, <1>2, <1>5, <2>1, <2>6
    <3>2. QED
      BY <1>3, <3>1
  <2>7. QED
    BY <1>1, <1>2, <2>1, <2>2, <2>3, <2>4, <2>5, <2>6
<1>8. QED
  BY <1>4, <1>7 DEF Insert, p, t

\* The alarm times of listeners that are not in the list do not matter.
LEMMA DescendingElsewhere ==
  ASSUME NEW q \in Seq(Listener), NEW at \in [Listener -> Nat], NEW l, NEW t,
         Descending(q, at), l \notin ToSet(q)
  PROVE  Descending(q, [at EXCEPT ![l] = t])
<1>1. \A i \in DOMAIN q : q[i] \in Listener /\ q[i] # l
  BY LenProperties DEF ToSet
<1>2. QED
  BY <1>1 DEF Descending

-----------------------------------------------------------------------------
(***************************************************************************)
(* Types.                                                                  *)
(***************************************************************************)

\* time_event::do_repeat moves an alarm to a later time.
LEMMA NextTimeType ==
  ASSUME NEW l \in Listener, TypeOK
  PROVE  NextTime(l) \in Nat
<1> DEFINE i == interval[l]
           t == time[l]
<1>1. i \in Nat /\ t \in Nat /\ now \in Nat
  BY DEF TypeOK
<1>2. NextTime(l) = IF i = 0 \/ t > now THEN t ELSE t + i * ((now - t) \div i + 1)
  BY DEF NextTime
<1> HIDE DEF i, t
<1>3. CASE i # 0 /\ t <= now
  <2> DEFINE d == (now - t) \div i
  <2>1. d \in Nat
    BY <1>1, <1>3
  <2> HIDE DEF d
  <2>2. i * (d + 1) \in Nat
    BY <1>1, <2>1
  <2>3. QED
    BY <1>1, <1>2, <1>3, <2>2 DEF d
<1>4. QED
  BY <1>1, <1>2, <1>3

LEMMA InitType == Init => TypeOK
<1>1. SUFFICES ASSUME Init
               PROVE  TypeOK
  OBVIOUS
<1>2. FactoryTypeOK
  BY <1>1, FactoryInitType DEF Init
<1>3. QED
  BY <1>1, <1>2 DEF Init, TypeOK

LEMMA ScriptType ==
  ASSUME TypeOK, Script
  PROVE  TypeOK'
<1>1. ASSUME NEW f \in Factory, NEW l \in Listener, NEW t \in Times, NEW i \in Nat, NEW r \in Int,
             RegisterEvent(f, l, t, i, r)
      PROVE  TypeOK'
  <2>1. time' \in [Listener -> Nat] /\ interval' \in [Listener -> Nat]
    BY <1>1, TimeAssumption DEF RegisterEvent, TypeOK
  <2>2. Insert(queue, l, time') \in Seq(Listener)
    BY <2>1, InsertType DEF TypeOK, FactoryTypeOK
  <2>3. FactoryTypeOK'
    BY <1>1, <2>2, AddListenerType DEF RegisterEvent, TypeOK
  <2>4. QED
    BY <1>1, <2>1, <2>3 DEF RegisterEvent, TypeOK
<1>2. CASE Register
  BY <1>1, <1>2, TimeAssumption DEF Register
<1>3. ASSUME NEW f \in Factory, Pause(f) \/ Resume(f) \/ Clear(f) \/ Delete(f)
      PROVE  TypeOK'
  BY <1>3, FactoryOpType DEF Pause, Resume, Clear, Delete, TypeOK, timeVars
<1>4. ASSUME NEW l \in Listener, PauseOne(l)
      PROVE  TypeOK'
  BY <1>4, PauseListenerType DEF PauseOne, TypeOK, timeVars, ListenersTypeOK, FactoryTypeOK
<1>5. ASSUME NEW l \in Listener, ResumeOne(l)
      PROVE  TypeOK'
  <2>1. Insert(queue, l, time) \in Seq(Listener)
    BY InsertType DEF TypeOK, FactoryTypeOK
  <2>2. ListenersTypeOK'
    BY <1>5, <2>1, ResumeListenerType DEF ResumeOne, TypeOK
  <2>3. QED
    BY <1>5, <2>2 DEF ResumeOne, TypeOK, timeVars, ListenersTypeOK, FactoryTypeOK
<1>6. ASSUME NEW l \in Listener, Destroy(l)
      PROVE  TypeOK'
  BY <1>6, DestroyListenerType DEF Destroy, TypeOK, timeVars
<1>7. ASSUME NEW t \in Times, SetTime(t)
      PROVE  TypeOK'
  BY <1>7, TimeAssumption DEF SetTime, TypeOK, FactoryTypeOK
<1>8. QED
  BY <1>2, <1>3, <1>4, <1>5, <1>6, <1>7 DEF Script

LEMMA RaiseType ==
  ASSUME TypeOK, Raise
  PROVE  TypeOK'
<1>1. ASSUME NEW l \in Listener, Deliver(l)
      PROVE  TypeOK'
  <2>1. Front(queue) \in Seq(Listener)
    BY <1>1, FrontType DEF Deliver, DueListener, TypeOK, FactoryTypeOK
  <2>2. NextTime(l) \in Nat
    BY NextTimeType
  <2>3. QED
    BY <1>1, <2>1, <2>2 DEF Deliver, TypeOK, FactoryTypeOK
<1>2. ASSUME NEW l \in Listener, Discard(l)
      PROVE  TypeOK'
  <2>1. Front(queue) \in Seq(Listener)
    BY <1>2, FrontType DEF Discard, DueListener, TypeOK, FactoryTypeOK
  <2>2. ListenersTypeOK'
    BY <1>2, <2>1, DeleteListenerType DEF Discard, TypeOK
  <2>3. QED
    BY <1>2, <2>2 DEF Discard, TypeOK, timeVars, ListenersTypeOK, FactoryTypeOK
<1>3. CASE Return
  <2>1. running \in Listener /\ queue \in Seq(Listener)
    BY <1>3 DEF Return, TypeOK, FactoryTypeOK
  <2>2. ListenersTypeOK'
    <3>1. CASE repeat[running] # 0
      <4>1. Insert(queue, running, time) \in Seq(Listener)
        BY <2>1, InsertType DEF TypeOK
      <4>2. QED
        BY <1>3, <3>1, <4>1 DEF Return, TypeOK, FactoryTypeOK, ListenersTypeOK
    <3>2. CASE repeat[running] = 0
      BY <1>3, <2>1, <3>2, DeleteListenerType DEF Return, TypeOK
    <3>3. QED
      BY <3>1, <3>2
  <2>3. QED
    BY <1>3, <2>2 DEF Return, TypeOK, ListenersTypeOK, FactoryTypeOK
<1>4. CASE EndRaise
  BY <1>4 DEF EndRaise, TypeOK, FactoryTypeOK, factoryVars
<1>5. QED
  BY <1>1, <1>2, <1>3, <1>4 DEF Raise

LEMMA TypeStep == TypeOK /\ [Next]_vars => TypeOK'
<1>1. SUFFICES ASSUME TypeOK, [Next]_vars
               PROVE  TypeOK'
  OBVIOUS
<1>2. CASE Script
  BY <1>1, <1>2, ScriptType
<1>3. CASE SweepStep
  <2>1. PICK l \in Listener : SweepListener(l, Insert(queue, l, time))
    BY <1>3 DEF SweepStep
  <2>2. Insert(queue, l, time) \in Seq(Listener)
    BY <1>1, InsertType DEF TypeOK, FactoryTypeOK
  <2>3. FactoryTypeOK'
    BY <1>1, <2>1, <2>2, SweepListenerType DEF TypeOK
  <2>4. QED
    BY <1>1, <1>3, <2>3 DEF SweepStep, TypeOK, timeVars
<1>4. CASE Tick
  <2>1. (now + 1) \in Nat
    BY <1>1 DEF TypeOK
  <2>2. QED
    BY <1>1, <1>4, <2>1 DEF Tick, TypeOK, FactoryTypeOK, factoryVars
<1>5. CASE Raise
  BY <1>1, <1>5, RaiseType
<1>6. CASE UNCHANGED vars
  BY <1>1, <1>6 DEF vars, TypeOK, FactoryTypeOK, factoryVars
<1>7. QED
  BY <1>1, <1>2, <1>3, <1>4, <1>5, <1>6 DEF Next

\* The state of the event system stays well typed whatever scripts do: the
\* list holds listeners only, no alarm time and no pause level leaves its
\* range.
THEOREM TypeCorrect == Spec => []TypeOK
<1>1. Init => TypeOK
  BY InitType
<1>2. TypeOK /\ [Next]_vars => TypeOK'
  BY TypeStep
<1>3. QED
  BY <1>1, <1>2, PTL DEF Spec

-----------------------------------------------------------------------------
(***************************************************************************)
(* The inductive invariant.                                                *)
(***************************************************************************)

\* What makes the properties of the list inductive.  A listener is marked as
\* registered exactly while it is not paused; the one whose callback is being
\* executed is marked although it has been popped, which is why neither
\* listener::resume nor a factory's loop adds it a second time.
Consistent ==
  /\ ToSet(queue) \subseteq Live
  /\ \A l \in Live \ {running} : registered[l] <=> paused[l] = 0
  /\ \A l \in Listener \ Live : owner[l] = NoFactory /\ ~registered[l]
  /\ running # 0 => running \in Live /\ paused[running] = 0 /\ registered[running] /\ raising

\* The loop of a factory over its listeners only meets the one whose callback
\* is being executed if it resumes them, and no pause level overflows.
SweepOK ==
  /\ sweep.todo \subseteq Live
  /\ \A l \in sweep.todo : owner[l] # NoFactory
  /\ running \in sweep.todo => sweep.op = "resume"
  /\ sweep.op = "pause" => \A l \in sweep.todo : paused[l] < PauseMod - 1
  /\ raising /\ running = 0 => sweep.todo = {}

\* The part of the invariant that does not depend on loops under way.
ListInv ==
  /\ ListedOnceUnlessPaused
  /\ SortedByTime
  /\ NoOrphanedListener
  /\ Consistent

IInv ==
  /\ TypeOK
  /\ ListInv
  /\ SweepOK

\* The list and its properties in the terms of the lemmas about lists.
LEMMA QueueFacts ==
  ASSUME TypeOK, ListInv
  PROVE  /\ queue \in Seq(Listener) /\ time \in [Listener -> Nat]
         /\ Distinct(queue) /\ Descending(queue, time)
BY DEF TypeOK, FactoryTypeOK, ListInv, ListedOnceUnlessPaused, SortedByTime, Distinct, Descending

LEMMA InitInv == Init => IInv
<1>1. SUFFICES ASSUME Init
               PROVE  IInv
  OBVIOUS
<1>2. queue = <<>> /\ ToSet(queue) = {} /\ DOMAIN queue = {}
  BY <1>1 DEF Init, FactoryInit, ToSet
<1>3. Live = {} /\ sweep.todo = {} /\ sweep.op = "none"
  BY <1>1 DEF Init, FactoryInit, Live, NoSweep
<1>4. ListInv
  BY <1>1, <1>2, <1>3 DEF Init, FactoryInit, ListInv, ListedOnceUnlessPaused, SortedByTime,
     NoOrphanedListener, Consistent
<1>5. QED
  BY <1>1, <1>3, <1>4, InitType DEF IInv, SweepOK, Init

-----------------------------------------------------------------------------
(***************************************************************************)
(* The operations on a listener.                                           *)
(***************************************************************************)

LEMMA PauseListenerInv ==
  ASSUME TypeOK, ListInv, NEW l \in Live \ {running}, PauseListener(l),
         owner[l] # NoFactory, paused[l] < PauseMod - 1, UNCHANGED timeVars
  PROVE  ListInv'
<1>1. /\ l \in Listener /\ l \in Live /\ l # running
      /\ paused[l] \in 0 .. PauseMod - 1 /\ (paused[l] + 1) % PauseMod = paused[l] + 1
  <2>1. l \in Listener /\ l \in Live /\ l # running
    BY DEF Live
  <2>2. paused[l] \in 0 .. PauseMod - 1
    BY <2>1 DEF TypeOK, FactoryTypeOK
  <2>3. QED
    BY <2>1, <2>2, LevelUpExact
<1>2. /\ Distinct(queue') /\ Descending(queue', time)
      /\ ToSet(queue') = ToSet(queue) \ {l}
      /\ registered' = [registered EXCEPT ![l] = FALSE]
  <2>1. CASE paused[l] = 0
    BY <2>1, QueueFacts, RemoveFirstDistinct DEF PauseListener, ManagerRemove
  <2>2. CASE paused[l] # 0
    <3>1. l \notin ToSet(queue) /\ ~registered[l]
      BY <1>1, <2>2 DEF ListInv, ListedOnceUnlessPaused, Consistent
    <3>2. registered' = registered /\ queue' = queue
      BY <2>2 DEF PauseListener
    <3>3. registered = [registered EXCEPT ![l] = FALSE]
      BY <3>1, <1>1 DEF TypeOK, FactoryTypeOK
    <3>4. QED
      BY <3>1, <3>2, <3>3, QueueFacts
  <2>3. QED
    BY <2>1, <2>2
<1>3. /\ paused' = [paused EXCEPT ![l] = paused[l] + 1]
      /\ Live' = Live /\ owner' = owner /\ running' = running /\ raising' = raising /\ time' = time
  BY <1>1 DEF PauseListener, Live, timeVars
<1>4. ListedOnceUnlessPaused'
  BY <1>1, <1>2, <1>3 DEF ListInv, ListedOnceUnlessPaused, Distinct, Live, TypeOK, FactoryTypeOK
<1>5. SortedByTime'
  BY <1>2, <1>3 DEF SortedByTime, Descending
<1>6. NoOrphanedListener'
  BY <1>1, <1>2, <1>3 DEF ListInv, NoOrphanedListener
<1>7. Consistent'
  BY <1>1, <1>2, <1>3 DEF ListInv, Consistent, Live, TypeOK, FactoryTypeOK
<1>8. QED
  BY <1>4, <1>5, <1>6, <1>7 DEF ListInv

LEMMA ResumeListenerInv ==
  ASSUME TypeOK, ListInv, NEW l \in Live, ResumeListener(l, Insert(queue, l, time)),
         UNCHANGED timeVars
  PROVE  ListInv'
<1>1. l \in Listener /\ l # 0 /\ paused[l] \in Nat /\ paused \in [Listener -> 0 .. PauseMod - 1]
  <2>1. l \in Listener /\ l # 0
    BY DEF Live, Listener
  <2>2. paused \in [Listener -> 0 .. PauseMod - 1]
    BY DEF TypeOK, FactoryTypeOK
  <2>3. paused[l] \in 0 .. PauseMod - 1
    BY <2>1, <2>2
  <2>4. QED
    BY <2>1, <2>2, <2>3
<1>2. /\ Live' = Live /\ owner' = owner /\ running' = running /\ raising' = raising /\ time' = time
  BY DEF ResumeListener, Live, timeVars
<1>3. CASE paused[l] = 0
  <2>1. registered[l]
    BY <1>1, <1>3 DEF ListInv, Consistent
  <2>2. paused' = paused /\ registered' = registered /\ queue' = queue
    BY <1>1, <1>3, <2>1 DEF ResumeListener
  <2>3. QED
    BY <1>2, <2>2 DEF ListInv, ListedOnceUnlessPaused, SortedByTime, NoOrphanedListener, Consistent
<1>4. CASE paused[l] # 0 /\ paused[l] # 1
  <2>1. /\ paused' = [paused EXCEPT ![l] = paused[l] - 1] /\ registered' = registered
        /\ queue' = queue
    BY <1>1, <1>4 DEF ResumeListener
  <2>2. l # running
    BY <1>1, <1>4 DEF ListInv, Consistent, Live
  <2>3. ListedOnceUnlessPaused' /\ SortedByTime' /\ NoOrphanedListener'
    BY <1>1, <1>2, <1>4, <2>1, <2>2 DEF ListInv, ListedOnceUnlessPaused, SortedByTime, NoOrphanedListener, Live
  <2>4. Consistent'
    BY <1>1, <1>2, <1>4, <2>1, <2>2 DEF ListInv, Consistent, Live
  <2>5. QED
    BY <2>3, <2>4 DEF ListInv
<1>5. CASE paused[l] = 1
  <2>1. /\ paused' = [paused EXCEPT ![l] = 0] /\ registered' = [registered EXCEPT ![l] = TRUE]
        /\ queue' = Insert(queue, l, time)
    BY <1>1, <1>5 DEF ResumeListener, ManagerAdd
  <2>2. l # running /\ l \notin ToSet(queue)
    BY <1>1, <1>5 DEF ListInv, Consistent, ListedOnceUnlessPaused
  <2>3. Distinct(queue') /\ Descending(queue', time) /\ ToSet(queue') = ToSet(queue) \cup {l}
    BY <1>1, <2>1, <2>2, QueueFacts, InsertListener
  <2>4. ListedOnceUnlessPaused'
    BY <1>1, <1>2, <2>1, <2>2, <2>3 DEF ListInv, ListedOnceUnlessPaused, Distinct, Live
  <2>5. SortedByTime'
    BY <1>2, <2>3 DEF SortedByTime, Descending
  <2>6. NoOrphanedListener'
    BY <1>2, <2>3 DEF ListInv, NoOrphanedListener
  <2>7. Consistent'
    BY <1>1, <1>2, <2>1, <2>2, <2>3 DEF ListInv, Consistent, Live, TypeOK, FactoryTypeOK
  <2>8. QED
    BY <2>4, <2>5, <2>6, <2>7 DEF ListInv
<1>6. QED
  BY <1>1, <1>3, <1>4, <1>5

\* Deleting a listener, which may have been popped off the list, or be the
\* one whose callback has just been executed.
LEMMA DeleteListenerInv ==
  ASSUME TypeOK, ListInv, NEW l \in Live, NEW q \in Seq(Listener), DeleteListener(l, q),
         Distinct(q), Descending(q, time), ToSet(q) \ {l} = ToSet(queue) \ {l},
         registered[l] \/ l \notin ToSet(q),
         \/ running' = running /\ l # running
         \/ running' = 0 /\ running \in {0, l},
         UNCHANGED <<time, raising>>
  PROVE  ListInv'
<1>1. l \in Listener
  BY DEF Live
<1>2. Distinct(queue') /\ Descending(queue', time) /\ ToSet(queue') = ToSet(queue) \ {l}
  <2>1. CASE registered[l]
    BY <2>1, RemoveFirstDistinct DEF DeleteListener
  <2>2. CASE ~registered[l]
    BY <2>2 DEF DeleteListener
  <2>3. QED
    BY <2>1, <2>2
<1>3. /\ Live' = Live \ {l} /\ paused' = paused
      /\ owner' = [owner EXCEPT ![l] = NoFactory]
      /\ registered' = [registered EXCEPT ![l] = FALSE]
  BY <1>1 DEF DeleteListener, Live, TypeOK, FactoryTypeOK
<1>4. ListedOnceUnlessPaused'
  <2>1. \A i, j \in DOMAIN queue' : queue'[i] = queue'[j] => i = j
    BY <1>2 DEF Distinct
  <2>2. \A k \in Live' \ {running'} : k \in Live \ {running} /\ k # l
    BY <1>1, <1>3 DEF Live
  <2>3. \A k \in Live \ {running} : k \in ToSet(queue) <=> paused[k] = 0
    BY DEF ListInv, ListedOnceUnlessPaused
  <2>4. running' \notin ToSet(queue')
    BY <1>2 DEF ListInv, ListedOnceUnlessPaused, Consistent, Live, Listener
  <2>5. QED
    BY <1>2, <1>3, <2>1, <2>2, <2>3, <2>4 DEF ListedOnceUnlessPaused
<1>5. SortedByTime'
  BY <1>2 DEF SortedByTime, Descending
<1>6. NoOrphanedListener'
  BY <1>1, <1>2, <1>3 DEF ListInv, NoOrphanedListener, TypeOK, FactoryTypeOK, Live
<1>7. Consistent'
  BY <1>1, <1>2, <1>3 DEF ListInv, Consistent, Live, TypeOK, FactoryTypeOK
<1>8. QED
  BY <1>4, <1>5, <1>6, <1>7 DEF ListInv

\* The name of a new listener is a fresh one.
LEMMA RegisterInv ==
  ASSUME TypeOK, ListInv, NEW f \in Factory, NEW l \in Listener, NEW t \in Times,
         NEW i \in Nat, NEW r \in Int, RegisterEvent(f, l, t, i, r)
  PROVE  ListInv'
<1>1. /\ life[l] = "unborn" /\ l \notin Live /\ l \notin ToSet(queue) /\ l # running
      /\ ~registered[l] /\ owner[l] = NoFactory /\ f # NoFactory
  BY FactoryAssumption
     DEF RegisterEvent, AddListener, NextListener, Live, ListInv, Consistent, Listener
<1>2. /\ life' = [life EXCEPT ![l] = "live"] /\ owner' = [owner EXCEPT ![l] = f]
      /\ paused' = [paused EXCEPT ![l] = fpaused[f]]
      /\ time' = [time EXCEPT ![l] = t] /\ t \in Nat
      /\ running' = running /\ raising' = raising
  BY TimeAssumption DEF RegisterEvent, AddListener
<1>3. Live' = Live \cup {l}
  BY <1>2 DEF Live, TypeOK, FactoryTypeOK
<1>4. queue \in Seq(Listener) /\ Distinct(queue) /\ Descending(queue, time')
  BY <1>1, <1>2, QueueFacts, DescendingElsewhere
<1>5. CASE fpaused[f] = 0
  <2>1. queue' = Insert(queue, l, time') /\ registered' = [registered EXCEPT ![l] = TRUE]
    BY <1>5 DEF RegisterEvent, AddListener, ManagerAdd
  <2>2. time' \in [Listener -> Nat]
    BY <1>2, QueueFacts
  <2>3. Distinct(queue') /\ Descending(queue', time') /\ ToSet(queue') = ToSet(queue) \cup {l}
    BY <1>1, <1>4, <2>1, <2>2, InsertListener
  <2>4. ListedOnceUnlessPaused'
    BY <1>1, <1>2, <1>3, <1>5, <2>3 DEF ListInv, ListedOnceUnlessPaused, Distinct, Live, TypeOK, FactoryTypeOK
  <2>5. SortedByTime'
    BY <2>3 DEF SortedByTime, Descending
  <2>6. NoOrphanedListener'
    BY <1>1, <1>2, <1>3, <2>3 DEF ListInv, NoOrphanedListener, TypeOK, FactoryTypeOK, Live
  <2>7. Consistent'
    BY <1>1, <1>2, <1>3, <1>5, <2>1, <2>3 DEF ListInv, Consistent, Live, TypeOK, FactoryTypeOK
  <2>8. QED
    BY <2>4, <2>5, <2>6, <2>7 DEF ListInv
<1>6. CASE fpaused[f] # 0
  <2>1. queue' = queue /\ registered' = registered
    BY <1>6 DEF RegisterEvent, AddListener
  <2>4. ListedOnceUnlessPaused'
    BY <1>1, <1>2, <1>3, <1>6, <2>1 DEF ListInv, ListedOnceUnlessPaused, Live, TypeOK, FactoryTypeOK
  <2>5. SortedByTime'
    BY <1>4, <2>1 DEF SortedByTime, Descending
  <2>6. NoOrphanedListener'
    BY <1>1, <1>2, <1>3, <2>1 DEF ListInv, NoOrphanedListener, TypeOK, FactoryTypeOK, Live
  <2>7. Consistent'
    BY <1>1, <1>2, <1>3, <1>6, <2>1 DEF ListInv, Consistent, Live, TypeOK, FactoryTypeOK
  <2>8. QED
    BY <2>4, <2>5, <2>6, <2>7 DEF ListInv
<1>7. QED
  BY <1>5, <1>6

-----------------------------------------------------------------------------
(***************************************************************************)
(* The steps of well-behaved scripts, of loops and of the main loop.       *)
(***************************************************************************)

\* Whoever belongs to a factory exists.
LEMMA OwnedIsLive ==
  ASSUME TypeOK, ListInv, NEW l \in Listener, owner[l] # NoFactory
  PROVE  l \in Live
BY DEF ListInv, Consistent

LEMMA MembersLive ==
  ASSUME TypeOK, ListInv, NEW f \in Factory
  PROVE  /\ Members(f) \subseteq Live
         /\ \A l \in Members(f) : owner[l] # NoFactory
BY FactoryAssumption, OwnedIsLive DEF Members

\* A step that changes neither the list nor what the list depends on.
LEMMA ListUntouched ==
  ASSUME TypeOK, ListInv,
         UNCHANGED <<life, owner, paused, registered, queue, time, running, raising>>
  PROVE  ListInv'
BY DEF ListInv, ListedOnceUnlessPaused, SortedByTime, NoOrphanedListener, Consistent, Live

\* Starting a loop over the listeners S of a factory.
LEMMA SweepStarts ==
  ASSUME NEW op \in {"pause", "resume", "delete"}, NEW S \in SUBSET Live,
         \A l \in S : owner[l] # NoFactory,
         running \in S => op = "resume",
         op = "pause" => \A l \in S : paused[l] < PauseMod - 1,
         raising => running # 0,
         sweep' = Sweep(op, S), UNCHANGED <<life, owner, paused, running, raising>>
  PROVE  SweepOK'
<1>1. sweep'.todo = S /\ (S # {} => sweep'.op = op)
  BY DEF Sweep, NoSweep
<1>2. Live' = Live
  BY DEF Live
<1>3. QED
  BY <1>1, <1>2 DEF SweepOK

LEMMA ScriptInv ==
  ASSUME WellBehaved, IInv, Script
  PROVE  ListInv' /\ SweepOK'
<1>0. TypeOK /\ ListInv /\ SweepOK
  BY DEF IInv
<1>1. ASSUME NEW f \in Factory, NEW l \in Listener, NEW t \in Times, NEW i \in Nat, NEW r \in Int,
             RegisterEvent(f, l, t, i, r)
      PROVE  ListInv' /\ SweepOK'
  <2>1. sweep.todo = {} /\ sweep' = sweep
    BY <1>1 DEF RegisterEvent, Permitted, AddListener
  <2>2. SweepOK'
    BY <2>1 DEF SweepOK
  <2>3. QED
    BY <1>0, <1>1, <2>2, RegisterInv
<1>2. CASE Register
  BY <1>1, <1>2, TimeAssumption DEF Register
<1>3. ASSUME NEW f \in Factory, Pause(f)
      PROVE  ListInv' /\ SweepOK'
  <2>1. /\ \A l \in Members(f) : paused[l] < PauseMod - 1
        /\ running \notin Members(f)
        /\ raising => running # 0
    BY <1>3 DEF Pause, Permitted, WellBehaved
  <2>2. /\ sweep' = Sweep("pause", Members(f))
        /\ UNCHANGED <<life, owner, paused, registered, queue, time, running, raising>>
    BY <1>3 DEF Pause, PauseFactory, timeVars
  <2>3. QED
    BY <1>0, <2>1, <2>2, MembersLive, ListUntouched, SweepStarts
<1>4. ASSUME NEW f \in Factory, Resume(f)
      PROVE  ListInv' /\ SweepOK'
  <2>1. /\ sweep' = Sweep("resume", Members(f))
        /\ raising => running # 0
        /\ UNCHANGED <<life, owner, paused, registered, queue, time, running, raising>>
    BY <1>4 DEF Resume, ResumeFactory, Permitted, timeVars
  <2>2. QED
    BY <1>0, <2>1, MembersLive, ListUntouched, SweepStarts
<1>5. ASSUME NEW f \in Factory, Clear(f)
      PROVE  ListInv' /\ SweepOK'
  <2>1. (\A l \in Members(f) : paused[l] = 0) /\ sweep.todo = {}
    BY <1>5 DEF Clear, Permitted, WellBehaved
  <2>2. /\ owner' = [l \in Listener |-> IF owner[l] = f THEN NoFactory ELSE owner[l]]
        /\ UNCHANGED <<life, paused, registered, queue, sweep, time, running, raising>>
    BY <1>5 DEF Clear, ClearFactory, timeVars
  <2>3. Live' = Live
    BY <2>2 DEF Live
  <2>4. ListedOnceUnlessPaused' /\ SortedByTime' /\ Consistent'
    BY <1>0, <2>2, <2>3 DEF ListInv, ListedOnceUnlessPaused, SortedByTime, Consistent
  <2>5. NoOrphanedListener'
    <3>1. \A l \in Live \ {running} : paused[l] = 0 => l \in ToSet(queue)
      BY <1>0 DEF ListInv, ListedOnceUnlessPaused
    <3>2. \A l \in Live : owner'[l] = NoFactory => owner[l] = NoFactory \/ l \in Members(f)
      BY <2>2 DEF Live, Members
    <3>3. QED
      BY <1>0, <2>1, <2>2, <2>3, <3>1, <3>2 DEF ListInv, NoOrphanedListener
  <2>6. SweepOK'
    BY <2>1, <2>2 DEF SweepOK
  <2>7. QED
    BY <2>4, <2>5, <2>6 DEF ListInv
<1>6. ASSUME NEW f \in Factory, Delete(f)
      PROVE  ListInv' /\ SweepOK'
  <2>1. running \notin Members(f) /\ (raising => running # 0)
    BY <1>6 DEF Delete, Permitted, WellBehaved
  <2>2. /\ sweep' = Sweep("delete", Members(f))
        /\ UNCHANGED <<life, owner, paused, registered, queue, time, running, raising>>
    BY <1>6 DEF Delete, DeleteFactory, timeVars
  <2>3. QED
    BY <1>0, <2>1, <2>2, MembersLive, ListUntouched, SweepStarts
<1>7. ASSUME NEW l \in Listener, PauseOne(l)
      PROVE  ListInv' /\ SweepOK'
  <2>1. /\ l # running /\ paused[l] < PauseMod - 1 /\ owner[l] # NoFactory
        /\ sweep.todo = {} /\ sweep' = sweep
        /\ PauseListener(l) /\ UNCHANGED timeVars
    BY <1>7 DEF PauseOne, Permitted, WellBehaved
  <2>2. l \in Live \ {running}
    BY <1>0, <2>1, OwnedIsLive
  <2>3. SweepOK'
    BY <2>1 DEF SweepOK
  <2>4. QED
    BY <1>0, <2>1, <2>2, <2>3, PauseListenerInv
<1>8. ASSUME NEW l \in Listener, ResumeOne(l)
      PROVE  ListInv' /\ SweepOK'
  <2>1. /\ owner[l] # NoFactory /\ sweep.todo = {} /\ sweep' = sweep
        /\ ResumeListener(l, Insert(queue, l, time)) /\ UNCHANGED timeVars
    BY <1>8 DEF ResumeOne, Permitted
  <2>2. SweepOK'
    BY <2>1 DEF SweepOK
  <2>3. QED
    BY <1>0, <2>1, <2>2, OwnedIsLive, ResumeListenerInv
<1>9. ASSUME NEW l \in Listener, Destroy(l)
      PROVE  ListInv' /\ SweepOK'
  <2>1. /\ sweep.todo = {}
        /\ UNCHANGED <<life, owner, paused, registered, queue, sweep, time, running, raising>>
    BY <1>9 DEF Destroy, DestroyListener, Permitted, timeVars
  <2>2. SweepOK'
    BY <2>1 DEF SweepOK
  <2>3. QED
    BY <1>0, <2>1, <2>2, ListUntouched
<1>10. ASSUME NEW t \in Times, SetTime(t)
       PROVE  ListInv' /\ SweepOK'
  <2>1. /\ sweep.todo = {}
        /\ time' = [time EXCEPT ![running] = t]
        /\ UNCHANGED <<life, owner, paused, registered, queue, sweep, running, raising>>
    BY <1>10 DEF SetTime, Permitted
  <2>2. Descending(queue, time')
    <3>1. running \notin ToSet(queue)
      BY <1>0 DEF ListInv, ListedOnceUnlessPaused
    <3>2. QED
      BY <1>0, <2>1, <3>1, QueueFacts, DescendingElsewhere
  <2>3. SortedByTime'
    BY <2>1, <2>2 DEF SortedByTime, Descending
  <2>4. ListedOnceUnlessPaused' /\ NoOrphanedListener' /\ Consistent'
    BY <1>0, <2>1 DEF ListInv, ListedOnceUnlessPaused, NoOrphanedListener, Consistent, Live
  <2>5. SweepOK'
    BY <2>1 DEF SweepOK
  <2>6. QED
    BY <2>3, <2>4, <2>5 DEF ListInv
<1>11. QED
  BY <1>2, <1>3, <1>4, <1>5, <1>6, <1>7, <1>8, <1>9, <1>10 DEF Script

LEMMA SweepStepInv ==
  ASSUME IInv, SweepStep
  PROVE  ListInv' /\ SweepOK'
<1>0. TypeOK /\ ListInv /\ SweepOK
  BY DEF IInv
<1>1. PICK l \in Listener : SweepListener(l, Insert(queue, l, time))
  BY DEF SweepStep
<1>2. UNCHANGED timeVars /\ l \in sweep.todo /\ l \in Live /\ owner[l] # NoFactory
  BY <1>0, <1>1 DEF SweepStep, SweepListener, SweepOK
<1>3. sweep'.todo = sweep.todo \ {l} /\ (sweep'.todo # {} => sweep'.op = sweep.op)
  BY <1>1 DEF SweepListener, Sweep, NoSweep
<1>4. \A k \in sweep'.todo : k \in sweep.todo /\ k # l /\ k \in Live /\ k \in Listener
  BY <1>0, <1>3 DEF SweepOK, Live
<1>5. CASE sweep.op = "pause" /\ PauseListener(l)
  <2>1. l # running /\ paused[l] < PauseMod - 1
    BY <1>0, <1>2, <1>5 DEF SweepOK
  <2>2. ListInv'
    BY <1>0, <1>2, <1>5, <2>1, PauseListenerInv
  <2>3. \A k \in sweep'.todo : paused'[k] = paused[k]
    BY <1>0, <1>4, <1>5 DEF PauseListener, TypeOK, FactoryTypeOK
  <2>4. Live' = Live /\ owner' = owner
    BY <1>5 DEF PauseListener, Live
  <2>5. SweepOK'
    BY <1>0, <1>2, <1>3, <1>4, <1>5, <2>3, <2>4 DEF SweepOK, timeVars
  <2>6. QED
    BY <2>2, <2>5
<1>6. CASE sweep.op = "resume" /\ ResumeListener(l, Insert(queue, l, time))
  <2>1. ListInv'
    BY <1>0, <1>2, <1>6, ResumeListenerInv
  <2>2. Live' = Live /\ owner' = owner
    BY <1>6 DEF ResumeListener, Live
  <2>3. SweepOK'
    BY <1>0, <1>2, <1>3, <1>4, <1>6, <2>2 DEF SweepOK, timeVars
  <2>4. QED
    BY <2>1, <2>3
<1>7. CASE sweep.op = "delete" /\ DeleteListener(l, queue)
  <2>1. l # running
    BY <1>0, <1>2, <1>7 DEF SweepOK
  <2>2. registered[l] \/ l \notin ToSet(queue)
    BY <1>0, <1>2, <2>1 DEF ListInv, ListedOnceUnlessPaused, Consistent
  <2>3. ListInv'
    <3>1. queue \in Seq(Listener) /\ Distinct(queue) /\ Descending(queue, time)
      BY <1>0, QueueFacts
    <3>2. UNCHANGED <<time, raising>> /\ running' = running
      BY <1>2 DEF timeVars
    <3>3. DeleteListener(l, queue) /\ ToSet(queue) \ {l} = ToSet(queue) \ {l}
      BY <1>7
    <3>4. QED
      BY <1>0, <1>2, <2>1, <2>2, <3>1, <3>2, <3>3, DeleteListenerInv
  <2>4. Live' = Live \ {l} /\ owner' = [owner EXCEPT ![l] = NoFactory]
    BY <1>0, <1>7 DEF DeleteListener, Live, TypeOK, FactoryTypeOK
  <2>5. \A k \in sweep'.todo : owner'[k] = owner[k]
    BY <1>0, <1>4, <2>4 DEF TypeOK, FactoryTypeOK
  <2>6. SweepOK'
    BY <1>0, <1>2, <1>3, <1>4, <1>7, <2>4, <2>5 DEF SweepOK, timeVars
  <2>7. QED
    BY <2>3, <2>6
<1>8. QED
  BY <1>1, <1>5, <1>6, <1>7 DEF SweepListener

LEMMA RaiseInv ==
  ASSUME IInv, Raise
  PROVE  ListInv' /\ SweepOK'
<1>0. TypeOK /\ ListInv /\ SweepOK
  BY DEF IInv
<1>1. ASSUME NEW l \in Listener, raising, running = 0, DueListener(l)
      PROVE  /\ l \in Live /\ l \in ToSet(queue) /\ paused[l] = 0 /\ registered[l] /\ l # 0
             /\ sweep.todo = {}
             /\ Front(queue) \in Seq(Listener)
             /\ ToSet(Front(queue)) = ToSet(queue) \ {l}
             /\ Distinct(Front(queue)) /\ Descending(Front(queue), time)
  <2>1. queue # <<>> /\ l = Last(queue)
    BY <1>1 DEF DueListener
  <2>2. /\ l \in ToSet(queue) /\ Front(queue) \in Seq(Listener)
        /\ ToSet(Front(queue)) = ToSet(queue) \ {l}
        /\ Distinct(Front(queue)) /\ Descending(Front(queue), time)
    BY <1>0, <2>1, QueueFacts, FrontDistinct
  <2>3. l \in Live /\ l # 0
    BY <1>0, <2>2 DEF ListInv, Consistent, Live, Listener
  <2>4. paused[l] = 0 /\ registered[l]
    BY <1>0, <1>1, <2>2, <2>3 DEF ListInv, ListedOnceUnlessPaused, Consistent
  <2>5. QED
    BY <1>0, <1>1, <2>2, <2>3, <2>4 DEF SweepOK
<1>2. ASSUME NEW l \in Listener, Deliver(l)
      PROVE  ListInv' /\ SweepOK'
  <2>1. /\ raising /\ running = 0 /\ DueListener(l)
        /\ queue' = Front(queue) /\ running' = l
        /\ time' = [time EXCEPT ![l] = NextTime(l)]
        /\ UNCHANGED <<life, owner, paused, registered, sweep, raising>>
    BY <1>2 DEF Deliver
  <2>2. /\ l \in Live /\ l \in ToSet(queue) /\ paused[l] = 0 /\ registered[l] /\ l # 0
        /\ sweep.todo = {}
        /\ queue' \in Seq(Listener) /\ ToSet(queue') = ToSet(queue) \ {l}
        /\ Distinct(queue') /\ Descending(queue', time)
    BY <1>1, <2>1
  <2>3. Descending(queue', time')
    BY <1>0, <2>1, <2>2, QueueFacts, DescendingElsewhere
  <2>4. Live' = Live
    BY <2>1 DEF Live
  <2>5. ListedOnceUnlessPaused'
    BY <1>0, <2>1, <2>2, <2>4 DEF ListInv, ListedOnceUnlessPaused, Distinct, Live, Listener
  <2>6. SortedByTime'
    BY <2>3 DEF SortedByTime, Descending
  <2>7. NoOrphanedListener'
    BY <1>0, <2>1, <2>2, <2>4 DEF ListInv, NoOrphanedListener, Live, Listener
  <2>8. Consistent'
    BY <1>0, <2>1, <2>2, <2>4 DEF ListInv, Consistent, Live, Listener
  <2>9. SweepOK'
    BY <2>1, <2>2 DEF SweepOK
  <2>10. QED
    BY <2>5, <2>6, <2>7, <2>8, <2>9 DEF ListInv
<1>3. ASSUME NEW l \in Listener, Discard(l)
      PROVE  ListInv' /\ SweepOK'
  <2>1. /\ raising /\ running = 0 /\ DueListener(l)
        /\ DeleteListener(l, Front(queue)) /\ sweep' = sweep /\ UNCHANGED timeVars
    BY <1>3 DEF Discard
  <2>2. /\ l \in Live /\ registered[l] /\ l # 0 /\ sweep.todo = {}
        /\ Front(queue) \in Seq(Listener)
        /\ ToSet(Front(queue)) \ {l} = ToSet(queue) \ {l}
        /\ Distinct(Front(queue)) /\ Descending(Front(queue), time)
    BY <1>1, <2>1
  <2>3. ListInv'
    BY <1>0, <2>1, <2>2, DeleteListenerInv DEF timeVars
  <2>4. SweepOK'
    BY <2>1, <2>2 DEF SweepOK
  <2>5. QED
    BY <2>3, <2>4
<1>4. CASE Return
  <2>1. /\ running # 0 /\ running \in Live /\ running \in Listener
        /\ paused[running] = 0 /\ registered[running] /\ running \notin ToSet(queue)
        /\ sweep.todo = {} /\ sweep' = sweep /\ running' = 0 /\ time' = time /\ raising' = raising
    BY <1>0, <1>4 DEF Return, ListInv, Consistent, ListedOnceUnlessPaused, Live
  <2>2. CASE repeat[running] # 0
    <3>1. /\ queue' = Insert(queue, running, time)
          /\ UNCHANGED <<life, owner, paused, registered>>
      BY <1>4, <2>2 DEF Return
    <3>2. Distinct(queue') /\ Descending(queue', time) /\ ToSet(queue') = ToSet(queue) \cup {running}
      BY <1>0, <2>1, <3>1, QueueFacts, InsertListener
    <3>3. Live' = Live
      BY <3>1 DEF Live
    <3>4. ListedOnceUnlessPaused'
      BY <1>0, <2>1, <3>1, <3>2, <3>3 DEF ListInv, ListedOnceUnlessPaused, Distinct, Consistent, Live, Listener
    <3>5. SortedByTime'
      BY <2>1, <3>2 DEF SortedByTime, Descending
    <3>6. NoOrphanedListener'
      BY <1>0, <2>1, <3>1, <3>2, <3>3 DEF ListInv, NoOrphanedListener
    <3>7. Consistent'
      BY <1>0, <2>1, <3>1, <3>2, <3>3 DEF ListInv, Consistent
    <3>8. QED
      BY <2>1, <3>4, <3>5, <3>6, <3>7 DEF ListInv, SweepOK
  <2>3. CASE repeat[running] = 0
    <3>1. DeleteListener(running, queue)
      BY <1>4, <2>3 DEF Return
    <3>2. ListInv'
      BY <1>0, <2>1, <3>1, QueueFacts, DeleteListenerInv
    <3>3. SweepOK'
      BY <2>1 DEF SweepOK
    <3>4. QED
      BY <3>2, <3>3
  <2>4. QED
    BY <2>2, <2>3
<1>5. CASE EndRaise
  <2>1. /\ running = 0 /\ raising' = FALSE
        /\ UNCHANGED <<life, owner, paused, registered, queue, sweep, time, running>>
    BY <1>5 DEF EndRaise, factoryVars
  <2>2. Live' = Live
    BY <2>1 DEF Live
  <2>3. ListInv'
    BY <1>0, <2>1, <2>2 DEF ListInv, ListedOnceUnlessPaused, SortedByTime, NoOrphanedListener, Consistent
  <2>4. SweepOK'
    BY <1>0, <2>1, <2>2 DEF SweepOK
  <2>5. QED
    BY <2>3, <2>4
<1>6. QED
  BY <1>2, <1>3, <1>4, <1>5 DEF Raise

LEMMA StepInv == WellBehaved => (IInv /\ [Next]_vars => IInv')
<1>1. SUFFICES ASSUME WellBehaved, IInv, [Next]_vars
               PROVE  IInv'
  OBVIOUS
<1>2. TypeOK'
  BY <1>1, TypeStep DEF IInv
<1>3. ListInv' /\ SweepOK'
  <2>1. CASE Script
    BY <1>1, <2>1, ScriptInv
  <2>2. CASE SweepStep
    BY <1>1, <2>2, SweepStepInv
  <2>3. CASE Tick
    <3>1. /\ ~raising /\ sweep.todo = {} /\ running = 0
          /\ UNCHANGED <<life, owner, paused, registered, queue, sweep, time, running>>
      BY <1>1, <2>3 DEF Tick, factoryVars, IInv, ListInv, Consistent
    <3>2. Live' = Live
      BY <3>1 DEF Live
    <3>3. ListInv'
      BY <1>1, <3>1, <3>2 DEF IInv, ListInv, ListedOnceUnlessPaused, SortedByTime, NoOrphanedListener, Consistent
    <3>4. QED
      BY <3>1, <3>3 DEF SweepOK
  <2>4. CASE Raise
    BY <1>1, <2>4, RaiseInv
  <2>5. CASE UNCHANGED vars
    <3>1. UNCHANGED <<life, owner, paused, registered, queue, sweep, time, running, raising>>
      BY <2>5 DEF vars, factoryVars
    <3>2. Live' = Live
      BY <3>1 DEF Live
    <3>3. QED
      BY <1>1, <3>1, <3>2, ListUntouched DEF IInv, SweepOK
  <2>6. QED
    BY <1>1, <2>1, <2>2, <2>3, <2>4, <2>5 DEF Next
<1>4. QED
  BY <1>2, <1>3 DEF IInv

-----------------------------------------------------------------------------
(***************************************************************************)
(* What holds of all behaviours with well-behaved scripts.                 *)
(***************************************************************************)

LEMMA Invariant == WellBehaved => (Spec => []IInv)
<1>1. SUFFICES ASSUME WellBehaved
               PROVE  Spec => []IInv
  OBVIOUS
<1>2. Init => IInv
  BY InitInv
<1>3. IInv /\ [Next]_vars => IInv'
  BY <1>1, StepInv
<1>4. QED
  BY <1>2, <1>3, PTL DEF Spec

\* No reference to a deleted listener is left in the list of the event
\* manager, in the callback or in the loop under way: listener::~listener
\* may rely on Registered to take itself off the list.
THEOREM NoDangling == WellBehaved => (Spec => []NoDanglingListener)
<1>1. IInv => NoDanglingListener
  BY DEF IInv, ListInv, Consistent, SweepOK, NoDanglingListener
<1>2. QED
  BY <1>1, Invariant, PTL

\* A listener is listed exactly once if it is not paused and not at all
\* if it is, through all nested pauses, resumes and callbacks.
THEOREM ListedOnce == WellBehaved => (Spec => []ListedOnceUnlessPaused)
<1>1. IInv => ListedOnceUnlessPaused
  BY DEF IInv, ListInv
<1>2. QED
  BY <1>1, Invariant, PTL

\* The list is sorted, so that looking at its end is enough to find the
\* listeners that are due.
THEOREM Sorted == WellBehaved => (Spec => []SortedByTime)
<1>1. IInv => SortedByTime
  BY DEF IInv, ListInv
<1>2. QED
  BY <1>1, Invariant, PTL

\* factory::clear leaves no listener behind that nobody will delete.
THEOREM NoOrphan == WellBehaved => (Spec => []NoOrphanedListener)
<1>1. IInv => NoOrphanedListener
  BY DEF IInv, ListInv
<1>2. QED
  BY <1>1, Invariant, PTL

\* With well-behaved scripts raise_event finds its list in order whenever it
\* goes on.
THEOREM SoundAlarms == WellBehaved => (Spec => []AlarmsSound)
<1>1. TypeOK /\ NoDanglingListener /\ ListedOnceUnlessPaused /\ SortedByTime /\ NoOrphanedListener
        => AlarmsSound
  BY DEF AlarmsSound
<1>2. QED
  BY <1>1, TypeCorrect, NoDangling, ListedOnce, Sorted, NoOrphan, PTL

\* The callback of a paused listener is not executed.
THEOREM PausedSilent == WellBehaved => (Spec => PausedNotDelivered)
<1>1. IInv /\ [Next]_vars => [running' \notin {running, 0} => paused[running'] = 0]_vars
  <2>1. SUFFICES ASSUME IInv, Next, running' \notin {running, 0}
                 PROVE  paused[running'] = 0
    BY DEF vars
  <2>2. PICK l \in Listener : Deliver(l)
    BY <2>1 DEF Next, Script, Register, RegisterEvent, Pause, Resume, Clear, Delete, PauseOne,
       ResumeOne, Destroy, SetTime, SweepStep, Tick, Raise, Discard, Return, EndRaise, timeVars
  <2>3. running' = l /\ running = 0 /\ queue # <<>> /\ l = Last(queue)
    BY <2>2 DEF Deliver, DueListener
  <2>4. l \in ToSet(queue)
    BY <2>1, <2>3, QueueFacts, FrontDistinct DEF IInv
  <2>5. l \in Live /\ l # 0
    BY <2>1, <2>4 DEF IInv, ListInv, Consistent, Live, Listener
  <2>6. QED
    BY <2>1, <2>3, <2>4, <2>5 DEF IInv, ListInv, ListedOnceUnlessPaused
<1>2. QED
  BY <1>1, Invariant, PTL DEF Spec, PausedNotDelivered

\* The listener at the end of the list is the one whose time comes first.
LEMMA NoneOverdueAtEnd ==
  ASSUME IInv, EndRaise, NEW l \in Live, paused[l] = 0
  PROVE  time[l] > now
<1>1. l \in ToSet(queue)
  BY DEF EndRaise, IInv, ListInv, ListedOnceUnlessPaused, Live, Listener
<1>2. /\ queue \in Seq(Listener) /\ time \in [Listener -> Nat] /\ now \in Nat
      /\ Descending(queue, time)
  BY QueueFacts DEF IInv, TypeOK
<1>3. PICK i \in 1 .. Len(queue) : queue[i] = l
  BY <1>1, <1>2, LenProperties DEF ToSet
<1>4. /\ Len(queue) \in Nat /\ DOMAIN queue = 1 .. Len(queue)
      /\ Last(queue) = queue[Len(queue)] /\ queue[Len(queue)] \in Listener
  BY <1>2, <1>3, LenProperties DEF Last
<1>5. time[Last(queue)] > now
  BY <1>2, <1>3, <1>4 DEF EndRaise, DueListener
<1>6. time[l] >= time[Last(queue)]
  BY <1>2, <1>3, <1>4 DEF Descending
<1>7. QED
  BY <1>2, <1>4, <1>5, <1>6 DEF Live

\* When raising an event ends, no listener is overdue that is not paused.
THEOREM NoneOverdue == WellBehaved => (Spec => NothingOverdue)
<1>1. IInv /\ [Next]_vars
        => [raising /\ ~raising' => \A l \in Live : paused[l] = 0 => time[l] > now]_vars
  <2>1. SUFFICES ASSUME IInv, Next, raising, ~raising', NEW l \in Live, paused[l] = 0
                 PROVE  time[l] > now
    BY DEF vars
  <2>2. EndRaise
    BY <2>1 DEF Next, Script, Register, RegisterEvent, Pause, Resume, Clear, Delete, PauseOne,
       ResumeOne, Destroy, SetTime, SweepStep, Tick, Raise, Deliver, Discard, Return, timeVars
  <2>3. QED
    BY <2>1, <2>2, NoneOverdueAtEnd
<1>2. QED
  BY <1>1, Invariant, PTL DEF Spec, NothingOverdue

\* An event is delivered to all listeners that are due, and to none that is
\* paused.
THEOREM RightDelivery == WellBehaved => (Spec => DeliveredWhenDue)
BY PausedSilent, NoneOverdue DEF DeliveredWhenDue

-----------------------------------------------------------------------------
(***************************************************************************)
(* The event system keeps the promises of AlarmClock.                      *)
(***************************************************************************)

\* What the alarm clock depends on beyond the list: alarm times are within
\* their range, one that is not repeated at intervals goes off once, and the
\* listener whose callback is being executed has one.
AlarmInv ==
  /\ now \in 0 .. MaxTime
  /\ \A l \in Live : time[l] \in AlarmTimes
  /\ \A l \in Live : interval[l] \in Intervals \/ (interval[l] = 0 /\ repeat[l] \in {0, 1})
  /\ running # 0 => running \notin Unconnected

\* The first time after n that is a number of intervals after t.
LEMMA LaterThanNow ==
  ASSUME NEW t \in Nat, NEW n \in Nat, t <= n, NEW i \in Nat \ {0}
  PROVE  t + i * ((n - t) \div i + 1) > n
<1> DEFINE a == n - t
           d == a \div i
<1>1. a \in Nat
  OBVIOUS
<1> HIDE DEF a
<1>2. d \in Nat /\ a < i * (d + 1)
  BY <1>1
<1>3. QED
  BY <1>1, <1>2 DEF a

\* do_repeat of a listener that is due and will be executed again.
LEMMA NextTimeLater ==
  ASSUME TypeOK, AlarmInv, NEW l \in Live, time[l] <= now, interval[l] \in Intervals
  PROVE  NextTime(l) \in AlarmTimes /\ NextTime(l) > now
<1>1. /\ time[l] \in AlarmTimes /\ time[l] \in Nat /\ now \in 0 .. MaxTime
      /\ interval[l] \in Nat \ {0} /\ now \in Nat
  BY TimeAssumption DEF TypeOK, AlarmInv, Live
<1>2. NextTime(l) = time[l] + interval[l] * ((now - time[l]) \div interval[l] + 1)
  BY <1>1 DEF NextTime
<1>3. QED
  BY <1>1, <1>2, AlarmTimesClosed, LaterThanNow

LEMMA AlarmInit == Init => AlarmInv
BY TimeAssumption DEF Init, FactoryInit, AlarmInv, Live

\* Operations that leave the alarms as they are, or remove some.
LEMMA AlarmInvKept ==
  ASSUME AlarmInv, Live' \subseteq Live, UNCHANGED <<now, time, interval>>,
         \A l \in Live' : repeat'[l] \in {repeat[l], 0}, running' \in {running, 0}
  PROVE  AlarmInv'
BY DEF AlarmInv

\* What one round of a factory's loop, or its counterpart for a single
\* listener, means to the alarm of the listener.
LEMMA PauseIsMute ==
  ASSUME TypeOK, NEW l \in Live, PauseListener(l), paused[l] < PauseMod - 1, UNCHANGED timeVars
  PROVE  AC!Mute(l) /\ (AlarmInv => AlarmInv')
<1>1. /\ l \in Listener /\ (paused[l] + 1) % PauseMod = paused[l] + 1 /\ paused[l] + 1 # 0
      /\ Live' = Live
      /\ UNCHANGED <<repeat, time, now, interval, running, raising>>
      /\ paused' = [paused EXCEPT ![l] = (paused[l] + 1) % PauseMod]
  <2>1. l \in Listener /\ paused[l] \in 0 .. PauseMod - 1
    BY DEF Live, TypeOK, FactoryTypeOK
  <2>2. (paused[l] + 1) % PauseMod = paused[l] + 1 /\ paused[l] + 1 # 0
    BY <2>1, LevelUpExact
  <2>3. QED
    BY <2>1, <2>2 DEF PauseListener, Live, timeVars
<1>2. Muted' = Muted \cup {l}
  BY <1>1 DEF Muted, TypeOK, FactoryTypeOK, Live
<1>3. Due' = Due
  BY <1>1 DEF Due
<1>4. AlarmInv => AlarmInv'
  BY <1>1, AlarmInvKept
<1>5. QED
  BY <1>1, <1>2, <1>3, <1>4 DEF AC!Mute

LEMMA ResumeUnmutes ==
  ASSUME TypeOK, NEW l \in Live, NEW q, ResumeListener(l, q), UNCHANGED timeVars
  PROVE  (AC!Unmute(l) \/ UNCHANGED AC!vars) /\ (AlarmInv => AlarmInv')
<1>1. /\ l \in Listener /\ paused[l] \in 0 .. PauseMod - 1 /\ Live' = Live
      /\ UNCHANGED <<repeat, time, now, interval, running, raising>>
      /\ paused' = [paused EXCEPT ![l] = IF paused[l] = 0 THEN 0 ELSE paused[l] - 1]
  BY DEF Live, TypeOK, FactoryTypeOK, ResumeListener, timeVars
<1>2. Muted' = Muted \ {l} \/ Muted' = Muted
  <2>1. CASE paused[l] \in {0, 1}
    BY <1>1, <2>1 DEF Muted, TypeOK, FactoryTypeOK, Live
  <2>2. CASE paused[l] \notin {0, 1}
    <3>1. paused'[l] # 0 /\ paused[l] # 0
      BY <1>1, <2>2 DEF TypeOK, FactoryTypeOK
    <3>2. \A k \in Live : paused'[k] = 0 <=> paused[k] = 0
      BY <1>1, <3>1 DEF TypeOK, FactoryTypeOK, Live
    <3>3. QED
      BY <1>1, <3>2 DEF Muted
  <2>3. QED
    BY <2>1, <2>2
<1>3. Due' = Due
  BY <1>1 DEF Due
<1>4. AlarmInv => AlarmInv'
  BY <1>1, AlarmInvKept
<1>5. QED
  BY <1>1, <1>2, <1>3, <1>4 DEF AC!Unmute, AC!vars

LEMMA DeleteCancels ==
  ASSUME TypeOK, NEW l \in Live, NEW q, DeleteListener(l, q), running' \in {running, 0},
         UNCHANGED <<now, time, interval, raising>>
  PROVE  /\ AC!Cancel({l}) /\ (AlarmInv => AlarmInv')
         /\ (repeat[l] = 0 \/ l \in Unconnected) /\ paused[l] = 0 => UNCHANGED AC!vars
<1>1. /\ l \in Listener /\ Live' = Live \ {l} /\ paused' = paused
      /\ repeat' = [repeat EXCEPT ![l] = 0]
  BY DEF DeleteListener, Live, TypeOK, FactoryTypeOK
<1>2. Muted' = Muted \ {l} /\ (paused[l] = 0 => Muted' = Muted)
  BY <1>1 DEF Muted
<1>3. \A k \in Listener \ {l} : repeat'[k] = repeat[k] /\ (k \in Live' <=> k \in Live)
  BY <1>1 DEF TypeOK, FactoryTypeOK
<1>4. /\ Due' = [k \in Listener |-> IF k \in {l} THEN {} ELSE Due[k]]
      /\ repeat[l] = 0 \/ l \in Unconnected => Due' = Due
  <2>1. \A k \in Listener : Due'[k] = IF k \in {l} THEN {} ELSE Due[k]
    BY <1>1, <1>3 DEF Due
  <2>2. repeat[l] = 0 \/ l \in Unconnected => Due[l] = {}
    BY <1>1 DEF Due
  <2>3. Due' = [k \in Listener |-> Due'[k]] /\ Due = [k \in Listener |-> Due[k]]
    BY DEF Due
  <2>4. QED
    BY <2>1, <2>2, <2>3
<1>5. AlarmInv => AlarmInv'
  <2>1. \A k \in Live' : repeat'[k] \in {repeat[k], 0}
    BY <1>1, <1>3 DEF Live
  <2>2. QED
    BY <1>1, <2>1, AlarmInvKept
<1>6. QED
  BY <1>2, <1>4, <1>5 DEF AC!Cancel, AC!vars

\* What is not a step of an alarm.
LEMMA AlarmsUntouched ==
  ASSUME UNCHANGED <<life, repeat, paused, now, time, interval, raising, running>>
  PROVE  UNCHANGED AC!vars /\ (AlarmInv => AlarmInv')
<1>1. Live' = Live
  BY DEF Live
<1>2. QED
  BY <1>1 DEF AC!vars, Due, Muted, AlarmInv

\* A new listener is an alarm that is armed, unless it will not go off ever.
LEMMA RegisterArms ==
  ASSUME IInv, AlarmInv, NEW f \in Factory, NEW l \in Listener, NEW t \in Times, NEW i \in Nat,
         NEW r \in Int, RegisterEvent(f, l, t, i, r), i \in Intervals \/ (i = 0 /\ r = 1)
  PROVE  (AC!Arm(l) \/ AC!Mute(l) \/ UNCHANGED AC!vars) /\ AlarmInv'
<1>1. /\ TypeOK /\ l \notin Live
      /\ life' = [life EXCEPT ![l] = "live"] /\ repeat' = [repeat EXCEPT ![l] = r]
      /\ paused' = [paused EXCEPT ![l] = fpaused[f]] /\ time' = [time EXCEPT ![l] = t]
      /\ interval' = [interval EXCEPT ![l] = i] /\ UNCHANGED <<now, raising, running>>
  <2>1. l \notin Live
    <3>1. life[l] = "unborn" <=> l >= l
      BY DEF RegisterEvent, AddListener, NextListener
    <3>2. QED
      BY <3>1 DEF Live, Listener
  <2>2. TypeOK
    BY DEF IInv
  <2>3. QED
    BY <2>1, <2>2 DEF RegisterEvent, AddListener
<1>2. Live' = Live \cup {l}
  BY <1>1 DEF Live, TypeOK, FactoryTypeOK
<1>3. \A k \in Listener \ {l} : /\ k \in Live' <=> k \in Live
                                /\ repeat'[k] = repeat[k] /\ paused'[k] = paused[k]
                                /\ time'[k] = time[k] /\ interval'[k] = interval[k]
  BY <1>1, <1>2 DEF TypeOK, FactoryTypeOK
<1>4. repeat'[l] = r /\ paused'[l] = fpaused[f] /\ time'[l] = t /\ interval'[l] = i
  BY <1>1 DEF TypeOK, FactoryTypeOK
<1>5. Muted' = Muted \/ Muted' = Muted \cup {l}
  BY <1>1, <1>2, <1>3 DEF Muted, Live
<1>6. Due[l] = {} /\ (Due' = Due \/ Due' = [Due EXCEPT ![l] = {t}])
  <2>1. Due[l] = {} /\ \A k \in Listener \ {l} : Due'[k] = Due[k]
    BY <1>1, <1>3 DEF Due
  <2>2. Due'[l] = {} \/ Due'[l] = {t}
    BY <1>4 DEF Due
  <2>3. Due' = [k \in Listener |-> Due'[k]] /\ Due = [k \in Listener |-> Due[k]]
    BY DEF Due
  <2> HIDE DEF Due
  <2>4. QED
    BY <2>1, <2>2, <2>3
<1>7. t \in AlarmTimes
  BY TimeAssumption
<1>8. AlarmInv'
  <2>1. \A k \in Live' : k = l \/ (k \in Live /\ k \in Listener \ {l})
    <3>1. Live \subseteq Listener
      BY DEF Live
    <3>2. QED
      BY <1>2, <3>1
  <2>2. \A k \in Live' : time'[k] \in AlarmTimes
    BY <1>3, <1>4, <1>7, <2>1 DEF AlarmInv
  <2>3. \A k \in Live' : interval'[k] \in Intervals \/ (interval'[k] = 0 /\ repeat'[k] \in {0, 1})
    BY <1>3, <1>4, <2>1 DEF AlarmInv
  <2>4. QED
    BY <1>1, <2>2, <2>3 DEF AlarmInv
<1>9. QED
  <2>1. CASE Due' = Due
    BY <1>1, <1>5, <1>8, <2>1 DEF AC!Mute, AC!vars
  <2>2. CASE Due' = [Due EXCEPT ![l] = {t}]
    BY <1>1, <1>5, <1>6, <1>7, <1>8, <2>2 DEF AC!Arm
  <2>3. QED
    BY <1>6, <2>1, <2>2

\* The alarms of listeners S are cancelled.
LEMMA DestroyCancels ==
  ASSUME TypeOK, AlarmInv, NEW S \in SUBSET Listener, UNCHANGED <<life, paused, timeVars>>,
         \A l \in Listener : repeat'[l] = IF l \in S THEN 0 ELSE repeat[l]
  PROVE  AC!Cancel(S) /\ AlarmInv'
<1>1. /\ Live' = Live /\ Muted' = Muted
      /\ UNCHANGED <<now, time, interval, raising, running>>
  BY DEF Live, Muted, timeVars
<1>2. Due' = [l \in Listener |-> IF l \in S THEN {} ELSE Due[l]]
  <2>1. \A l \in Listener : Due'[l] = IF l \in S THEN {} ELSE Due[l]
    BY <1>1 DEF Due
  <2>2. Due' = [l \in Listener |-> Due'[l]]
    BY DEF Due
  <2> HIDE DEF Due
  <2>3. QED
    BY <2>1, <2>2
<1>3. AlarmInv'
  BY <1>1, AlarmInvKept DEF Live
<1>4. QED
  BY <1>1, <1>2, <1>3 DEF AC!Cancel

LEMMA ScriptRefines ==
  ASSUME WellBehaved, IInv, AlarmInv, Script
  PROVE  [AC!Next]_(AC!vars) /\ AlarmInv'
<1>0. TypeOK /\ ListInv /\ SweepOK
  BY DEF IInv
<1>1. CASE Register
  <2>1. PICK f \in Factory, l \in Listener, t \in Times, i \in Nat, r \in Int :
          RegisterEvent(f, l, t, i, r) /\ (i \in Intervals \/ (i = 0 /\ r = 1))
    BY <1>1, TimeAssumption DEF Register
  <2>2. QED
    BY <2>1, RegisterArms DEF AC!Next
<1>2. ASSUME NEW f \in Factory, Pause(f) \/ Resume(f) \/ Delete(f)
      PROVE  [AC!Next]_(AC!vars) /\ AlarmInv'
  <2>1. UNCHANGED <<life, repeat, paused, now, time, interval, raising, running>>
    BY <1>2 DEF Pause, Resume, Delete, PauseFactory, ResumeFactory, DeleteFactory, timeVars
  <2>2. QED
    BY <2>1, AlarmsUntouched
<1>3. ASSUME NEW f \in Factory, Clear(f)
      PROVE  [AC!Next]_(AC!vars) /\ AlarmInv'
  <2>1. /\ UNCHANGED <<life, paused, timeVars>> /\ Members(f) \in SUBSET Listener
        /\ \A l \in Listener : repeat'[l] = IF l \in Members(f) THEN 0 ELSE repeat[l]
    BY <1>3 DEF Clear, ClearFactory, Members
  <2>2. QED
    BY <1>0, <2>1, DestroyCancels DEF AC!Next
<1>4. ASSUME NEW l \in Listener, PauseOne(l)
      PROVE  [AC!Next]_(AC!vars) /\ AlarmInv'
  <2>1. /\ paused[l] < PauseMod - 1 /\ l \in Live /\ PauseListener(l) /\ UNCHANGED timeVars
    BY <1>0, <1>4, OwnedIsLive DEF PauseOne, Permitted, WellBehaved
  <2>2. QED
    BY <1>0, <2>1, PauseIsMute DEF AC!Next
<1>5. ASSUME NEW l \in Listener, ResumeOne(l)
      PROVE  [AC!Next]_(AC!vars) /\ AlarmInv'
  <2>1. l \in Live /\ ResumeListener(l, Insert(queue, l, time)) /\ UNCHANGED timeVars
    BY <1>0, <1>5, OwnedIsLive DEF ResumeOne
  <2>2. QED
    BY <1>0, <2>1, ResumeUnmutes DEF AC!Next
<1>6. ASSUME NEW l \in Listener, Destroy(l)
      PROVE  [AC!Next]_(AC!vars) /\ AlarmInv'
  <2>1. /\ UNCHANGED <<life, paused, timeVars>> /\ {l} \in SUBSET Listener
        /\ \A k \in Listener : repeat'[k] = IF k \in {l} THEN 0 ELSE repeat[k]
    BY <1>0, <1>6 DEF Destroy, DestroyListener, TypeOK, FactoryTypeOK
  <2>2. QED
    BY <1>0, <2>1, DestroyCancels DEF AC!Next
<1>7. ASSUME NEW t \in Times, SetTime(t)
      PROVE  [AC!Next]_(AC!vars) /\ AlarmInv'
  <2> DEFINE l == running
  <2>1. /\ l \in Listener /\ l \in Live /\ paused[l] = 0 /\ raising /\ l \notin Unconnected
        /\ time' = [time EXCEPT ![l] = t] /\ repeat' = [repeat EXCEPT ![l] = 1]
        /\ UNCHANGED <<life, paused, now, interval, raising, running>>
    BY <1>0, <1>7 DEF SetTime, ListInv, Consistent, AlarmInv, Live
  <2> HIDE DEF l
  <2>2. /\ Live' = Live /\ Muted' = Muted /\ l \notin Muted
    BY <2>1 DEF Live, Muted
  <2>3. /\ \A k \in Listener \ {l} : time'[k] = time[k] /\ repeat'[k] = repeat[k]
        /\ time'[l] = t /\ repeat'[l] = 1 /\ t \in AlarmTimes
    BY <1>0, <2>1, TimeAssumption DEF TypeOK, FactoryTypeOK
  <2>4. Due' = [Due EXCEPT ![l] = {t}]
    <3>1. \A k \in Listener : Due'[k] = IF k = l THEN {t} ELSE Due[k]
      BY <2>1, <2>2, <2>3 DEF Due
    <3>2. Due' = [k \in Listener |-> Due'[k]] /\ Due = [k \in Listener |-> Due[k]]
      BY DEF Due
    <3> HIDE DEF Due
    <3>3. QED
      BY <2>1, <3>1, <3>2
  <2>5. AC!Rearm(l)
    BY <2>1, <2>2, <2>3, <2>4 DEF AC!Rearm
  <2>6. AlarmInv'
    BY <2>1, <2>2, <2>3 DEF AlarmInv, Live
  <2>7. QED
    BY <2>1, <2>5, <2>6 DEF AC!Next
<1>8. QED
  BY <1>1, <1>2, <1>3, <1>4, <1>5, <1>6, <1>7 DEF Script

LEMMA SweepRefines ==
  ASSUME IInv, AlarmInv, SweepStep
  PROVE  [AC!Next]_(AC!vars) /\ AlarmInv'
<1>0. TypeOK /\ ListInv /\ SweepOK
  BY DEF IInv
<1>1. PICK l \in Listener : SweepListener(l, Insert(queue, l, time))
  BY DEF SweepStep
<1>2. /\ l \in Live /\ UNCHANGED timeVars
      /\ UNCHANGED <<now, time, interval, raising>> /\ running' \in {running, 0}
      /\ sweep.op = "pause" => paused[l] < PauseMod - 1
  BY <1>0, <1>1 DEF SweepStep, SweepListener, SweepOK, timeVars
<1>3. CASE sweep.op = "pause" /\ PauseListener(l)
  BY <1>0, <1>2, <1>3, PauseIsMute DEF AC!Next
<1>4. CASE sweep.op = "resume" /\ ResumeListener(l, Insert(queue, l, time))
  BY <1>0, <1>2, <1>4, ResumeUnmutes DEF AC!Next
<1>5. CASE sweep.op = "delete" /\ DeleteListener(l, queue)
  <2>1. AC!Cancel({l}) /\ AlarmInv'
    BY <1>0, <1>2, <1>5, DeleteCancels
  <2>2. QED
    BY <2>1 DEF AC!Next
<1>6. QED
  BY <1>1, <1>3, <1>4, <1>5 DEF SweepListener

\* The time that has come for the listener at the end of the list.
LEMMA DueFacts ==
  ASSUME IInv, NEW l \in Listener, DueListener(l)
  PROVE  l \in Live /\ l # running /\ paused[l] = 0 /\ time[l] <= now
<1>1. queue # <<>> /\ l = Last(queue) /\ time[l] <= now
  BY DEF DueListener
<1>2. l \in ToSet(queue)
  BY <1>1, QueueFacts, FrontDistinct DEF IInv
<1>3. QED
  BY <1>1, <1>2 DEF IInv, ListInv, ListedOnceUnlessPaused, Consistent

LEMMA RaiseRefines ==
  ASSUME IInv, AlarmInv, Raise
  PROVE  [AC!Next]_(AC!vars) /\ AlarmInv'
<1>0. TypeOK /\ ListInv
  BY DEF IInv
<1>1. ASSUME NEW l \in Listener, Deliver(l)
      PROVE  [AC!Next]_(AC!vars) /\ AlarmInv'
  <2>1. /\ l \in Live /\ paused[l] = 0 /\ time[l] <= now /\ raising
        /\ repeat[l] # 0 /\ l \notin Unconnected
        /\ repeat' = [repeat EXCEPT ![l] = IF repeat[l] > 0 THEN repeat[l] - 1 ELSE repeat[l]]
        /\ time' = [time EXCEPT ![l] = NextTime(l)] /\ running' = l
        /\ UNCHANGED <<life, paused, now, interval, raising>>
    BY <1>1, DueFacts DEF Deliver
  <2>2. Live' = Live /\ Muted' = Muted /\ l \notin Muted
    BY <2>1 DEF Live, Muted
  <2>3. /\ \A k \in Listener \ {l} : time'[k] = time[k] /\ repeat'[k] = repeat[k]
        /\ time'[l] = NextTime(l)
        /\ repeat'[l] = IF repeat[l] > 0 THEN repeat[l] - 1 ELSE repeat[l]
        /\ repeat[l] \in Int
    BY <1>0, <2>1 DEF TypeOK, FactoryTypeOK
  <2>4. \/ interval[l] \in Intervals /\ NextTime(l) \in AlarmTimes /\ NextTime(l) > now
        \/ interval[l] = 0 /\ NextTime(l) = time[l] /\ repeat[l] = 1 /\ repeat'[l] = 0
    <3>1. CASE interval[l] \in Intervals
      BY <1>0, <2>1, <3>1, NextTimeLater
    <3>2. CASE interval[l] = 0 /\ repeat[l] \in {0, 1}
      BY <2>1, <2>3, <3>2 DEF NextTime
    <3>3. QED
      BY <2>1, <3>1, <3>2 DEF AlarmInv
  <2>5. AlarmInv'
    <3>1. NextTime(l) \in AlarmTimes
      BY <2>1, <2>4 DEF AlarmInv
    <3>2. \A k \in Live : k = l \/ k \in Listener \ {l}
      BY DEF Live
    <3>3. \A k \in Live : time'[k] \in AlarmTimes
      BY <2>3, <3>1, <3>2 DEF AlarmInv
    <3>4. \A k \in Live : interval[k] \in Intervals \/ (interval[k] = 0 /\ repeat'[k] \in {0, 1})
      BY <2>3, <2>4, <3>2 DEF AlarmInv
    <3>5. QED
      BY <2>1, <2>2, <3>3, <3>4 DEF AlarmInv
  <2>6. /\ Due[l] = {time[l]}
        /\ \A k \in Listener \ {l} : Due'[k] = Due[k]
        /\ Due'[l] = IF repeat'[l] # 0 THEN {NextTime(l)} ELSE {}
    BY <2>1, <2>2, <2>3 DEF Due
  <2>7. \/ Due' = [Due EXCEPT ![l] = {}]
        \/ \E t \in AlarmTimes : t > now /\ Due' = [Due EXCEPT ![l] = {t}]
    <3>1. Due' = [k \in Listener |-> Due'[k]] /\ Due = [k \in Listener |-> Due[k]]
      BY DEF Due
    <3>2. CASE repeat'[l] = 0
      <4>1. Due' = [Due EXCEPT ![l] = {}]
        BY <2>6, <3>1, <3>2
      <4>2. QED
        BY <4>1
    <3>3. CASE repeat'[l] # 0
      <4>1. Due' = [Due EXCEPT ![l] = {NextTime(l)}]
        BY <2>6, <3>1, <3>3
      <4>2. NextTime(l) \in AlarmTimes /\ NextTime(l) > now
        BY <2>4, <3>3
      <4>3. QED
        BY <4>1, <4>2
    <3>4. QED
      BY <3>2, <3>3
  <2>8. AC!Ring(l)
    <3>1. AC!Overdue(l)
      BY <2>1, <2>6 DEF AC!Overdue
    <3>2. QED
      BY <2>1, <2>2, <2>7, <3>1 DEF AC!Ring
  <2>9. QED
    BY <2>5, <2>8 DEF AC!Next
<1>2. ASSUME NEW l \in Listener, Discard(l)
      PROVE  [AC!Next]_(AC!vars) /\ AlarmInv'
  <2>1. /\ l \in Live /\ paused[l] = 0 /\ (repeat[l] = 0 \/ l \in Unconnected)
        /\ DeleteListener(l, Front(queue)) /\ running' \in {running, 0}
        /\ UNCHANGED <<now, time, interval, raising>>
    BY <1>2, DueFacts DEF Discard, timeVars
  <2>2. QED
    BY <1>0, <2>1, DeleteCancels
<1>3. CASE Return
  <2>1. /\ running \in Live /\ paused[running] = 0 /\ running' = 0
        /\ UNCHANGED <<now, time, interval, raising>>
    BY <1>0, <1>3 DEF Return, ListInv, Consistent
  <2>2. CASE repeat[running] # 0
    <3>1. UNCHANGED <<life, repeat, paused>>
      BY <1>3, <2>2 DEF Return
    <3>2. Live' = Live
      BY <3>1 DEF Live
    <3>3. AlarmInv'
      BY <2>1, <3>1, <3>2, AlarmInvKept
    <3>4. QED
      BY <2>1, <3>1, <3>2, <3>3 DEF AC!vars, Due, Muted
  <2>3. CASE repeat[running] = 0
    <3>1. DeleteListener(running, queue)
      BY <1>3, <2>3 DEF Return
    <3>2. QED
      BY <1>0, <2>1, <2>3, <3>1, DeleteCancels
  <2>4. QED
    BY <2>2, <2>3
<1>4. CASE EndRaise
  <2>1. /\ raising /\ raising' = FALSE
        /\ UNCHANGED <<life, repeat, paused, now, time, interval, running>>
    BY <1>4 DEF EndRaise, factoryVars
  <2>2. Live' = Live /\ Due' = Due /\ Muted' = Muted
    BY <2>1 DEF Live, Due, Muted
  <2>3. \A a \in Listener \ Muted : ~ AC!Overdue(a)
    <3>1. SUFFICES ASSUME NEW a \in Listener \ Muted, a \in Live
                   PROVE  ~ (time[a] <= now)
      BY DEF AC!Overdue, Due
    <3>2. time[a] > now
      BY <1>4, <3>1, NoneOverdueAtEnd DEF Muted
    <3>3. QED
      BY <1>0, <3>2 DEF TypeOK
  <2>4. AC!AllRung
    BY <2>1, <2>2, <2>3 DEF AC!AllRung
  <2>5. AlarmInv'
    BY <2>1, <2>2 DEF AlarmInv
  <2>6. QED
    BY <2>4, <2>5 DEF AC!Next
<1>5. QED
  BY <1>1, <1>2, <1>3, <1>4 DEF Raise

LEMMA StepRefines ==
  WellBehaved => (IInv /\ AlarmInv /\ [Next]_vars => [AC!Next]_(AC!vars) /\ AlarmInv')
<1>1. SUFFICES ASSUME WellBehaved, IInv, AlarmInv, [Next]_vars
               PROVE  [AC!Next]_(AC!vars) /\ AlarmInv'
  OBVIOUS
<1>2. CASE Script
  BY <1>1, <1>2, ScriptRefines
<1>3. CASE SweepStep
  BY <1>1, <1>3, SweepRefines
<1>4. CASE Tick
  <2>1. /\ ~raising /\ now < MaxTime /\ now' = now + 1 /\ raising' = (now' % Resolution = 0)
        /\ UNCHANGED <<life, repeat, paused, time, interval, running>>
    BY <1>4 DEF Tick, factoryVars
  <2>2. Live' = Live /\ Due' = Due /\ Muted' = Muted
    BY <2>1 DEF Live, Due, Muted
  <2>3. AC!Advance
    BY <2>1, <2>2 DEF AC!Advance
  <2>4. AlarmInv'
    BY <1>1, <2>1, <2>2, TimeAssumption DEF AlarmInv
  <2>5. QED
    BY <2>3, <2>4 DEF AC!Next
<1>5. CASE Raise
  BY <1>1, <1>5, RaiseRefines
<1>6. CASE UNCHANGED vars
  BY <1>1, <1>6, AlarmsUntouched DEF vars, factoryVars
<1>7. QED
  BY <1>1, <1>2, <1>3, <1>4, <1>5, <1>6 DEF Next

\* Alarms set, muted and cancelled at any moment, from callbacks too, ring as
\* AlarmClock says: none is missed, none rings early, and the clock waits for
\* them at every multiple of Resolution.
THEOREM KeepsAlarmClock == WellBehaved => (Spec => ImplementsAlarmClock)
<1>1. SUFFICES ASSUME WellBehaved
               PROVE  Spec => ImplementsAlarmClock
  OBVIOUS
<1>2. Init => AlarmInv /\ AC!Init
  <2>1. SUFFICES ASSUME Init
                 PROVE  AlarmInv /\ AC!Init
    OBVIOUS
  <2>2. Live = {}
    BY <2>1 DEF Init, FactoryInit, Live
  <2>3. Due = [l \in Listener |-> {}] /\ Muted = {}
    BY <2>2 DEF Due, Muted
  <2>4. QED
    BY <2>1, <2>3, AlarmInit DEF AC!Init, Init
<1>3. IInv /\ AlarmInv /\ [Next]_vars => [AC!Next]_(AC!vars) /\ AlarmInv'
  BY <1>1, StepRefines
<1>4. Spec => []IInv
  BY <1>1, Invariant
<1>5. Spec => AC!Init /\ [][AC!Next]_(AC!vars)
  BY <1>2, <1>3, <1>4, PTL DEF Spec
<1>6. QED
  BY <1>5 DEF ImplementsAlarmClock, AC!Spec

=============================================================================

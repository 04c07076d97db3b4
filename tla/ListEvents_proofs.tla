-------------------------- MODULE ListEvents_proofs --------------------------
(***************************************************************************)
(* The walks of ListEvents are sound and complete for scripts that behave  *)
(* well, whatever the number of listeners, factories and events and        *)
(* however deep events are raised from callbacks.                          *)
(***************************************************************************)
EXTENDS ListEvents, ListLemmas, TLAPS

-----------------------------------------------------------------------------
(***************************************************************************)
(* The operations on a single listener, whatever the event manager.        *)
(***************************************************************************)

\* The part of the state that operations on a single listener change.
ListenersTypeOK ==
  /\ life \in [Listener -> {"unborn", "live", "freed"}]
  /\ owner \in [Listener -> Factory \cup {NoFactory}]
  /\ repeat \in [Listener -> Int]
  /\ paused \in [Listener -> 0 .. PauseMod - 1]
  /\ registered \in [Listener -> BOOLEAN]
  /\ queue \in Seq(Listener)

LEMMA FactoryInitType == FactoryInit => FactoryTypeOK
BY FactoryAssumption DEF FactoryInit, FactoryTypeOK, NoSweep

\* Pause levels stay within the width of their counter.
LEMMA LevelUp == ASSUME NEW n \in 0 .. PauseMod - 1
                 PROVE  (n + 1) % PauseMod \in 0 .. PauseMod - 1
BY FactoryAssumption

LEMMA LevelDown == ASSUME NEW n \in 0 .. PauseMod - 1
                   PROVE  (n - 1) % PauseMod \in 0 .. PauseMod - 1
BY FactoryAssumption

LEMMA LevelUpExact == ASSUME NEW n \in 0 .. PauseMod - 1, n < PauseMod - 1
                      PROVE  (n + 1) % PauseMod = n + 1
BY FactoryAssumption

LEMMA PauseListenerType ==
  ASSUME NEW l \in Listener, FactoryTypeOK, PauseListener(l)
  PROVE  ListenersTypeOK'
<1>1. registered' \in [Listener -> BOOLEAN] /\ queue' \in Seq(Listener)
  <2>1. queue \in Seq(Listener) /\ RemoveFirst(queue, l) \in Seq(Listener)
    BY RemoveFirstType DEF FactoryTypeOK
  <2>2. QED
    BY <2>1 DEF FactoryTypeOK, PauseListener, ManagerRemove
<1>2. paused' \in [Listener -> 0 .. PauseMod - 1]
  <2>1. paused[l] \in 0 .. PauseMod - 1
    BY DEF FactoryTypeOK
  <2>2. (paused[l] + 1) % PauseMod \in 0 .. PauseMod - 1
    BY <2>1, LevelUp
  <2>3. QED
    BY <2>2 DEF FactoryTypeOK, PauseListener
<1>3. QED
  BY <1>1, <1>2 DEF FactoryTypeOK, ListenersTypeOK, PauseListener

LEMMA ResumeListenerType ==
  ASSUME NEW l \in Listener, NEW q \in Seq(Listener), FactoryTypeOK, ResumeListener(l, q)
  PROVE  ListenersTypeOK'
<1>1. registered' \in [Listener -> BOOLEAN] /\ queue' \in Seq(Listener)
  BY DEF FactoryTypeOK, ResumeListener, ManagerAdd
<1>2. paused' \in [Listener -> 0 .. PauseMod - 1]
  BY FactoryAssumption DEF FactoryTypeOK, ResumeListener
<1>3. QED
  BY <1>1, <1>2 DEF FactoryTypeOK, ListenersTypeOK, ResumeListener

LEMMA DeleteListenerType ==
  ASSUME NEW l \in Listener, NEW q \in Seq(Listener), FactoryTypeOK, DeleteListener(l, q)
  PROVE  ListenersTypeOK'
<1>1. queue' \in Seq(Listener)
  BY RemoveFirstType DEF DeleteListener
<1>2. QED
  BY <1>1 DEF FactoryTypeOK, ListenersTypeOK, DeleteListener

LEMMA DestroyListenerType ==
  ASSUME NEW l \in Listener, FactoryTypeOK, DestroyListener(l)
  PROVE  FactoryTypeOK'
BY DEF FactoryTypeOK, DestroyListener

LEMMA AddListenerType ==
  ASSUME NEW f \in Factory, NEW l \in Listener, NEW r \in Int, NEW q \in Seq(Listener),
         FactoryTypeOK, AddListener(f, l, r, q)
  PROVE  FactoryTypeOK'
<1>1. registered' \in [Listener -> BOOLEAN] /\ queue' \in Seq(Listener)
  BY DEF FactoryTypeOK, AddListener, ManagerAdd
<1>2. QED
  BY <1>1 DEF FactoryTypeOK, AddListener

\* The loops over a factory's listeners.
LEMMA SweepType ==
  ASSUME NEW op \in {"pause", "resume", "delete"}, NEW S \in SUBSET Listener
  PROVE  Sweep(op, S) \in [op : {"none", "pause", "resume", "delete"}, todo : SUBSET Listener]
BY DEF Sweep, NoSweep

LEMMA FactoryOpType ==
  ASSUME NEW f \in Factory, FactoryTypeOK,
         PauseFactory(f) \/ ResumeFactory(f) \/ ClearFactory(f) \/ DeleteFactory(f)
  PROVE  FactoryTypeOK'
<1>0. Members(f) \in SUBSET Listener /\ fpaused[f] \in 0 .. PauseMod - 1
  BY DEF Members, FactoryTypeOK
<1>1. CASE PauseFactory(f)
  <2>1. (fpaused[f] + 1) % PauseMod \in 0 .. PauseMod - 1
    BY <1>0, LevelUp
  <2>2. sweep' \in [op : {"none", "pause", "resume", "delete"}, todo : SUBSET Listener]
    BY <1>0, <1>1, SweepType DEF PauseFactory
  <2>3. QED
    BY <1>1, <2>1, <2>2 DEF FactoryTypeOK, PauseFactory
<1>2. CASE ResumeFactory(f)
  <2>1. (fpaused[f] - 1) % PauseMod \in 0 .. PauseMod - 1
    BY <1>0, LevelDown
  <2>2. sweep' \in [op : {"none", "pause", "resume", "delete"}, todo : SUBSET Listener]
    BY <1>0, <1>2, SweepType DEF ResumeFactory
  <2>3. QED
    BY <1>2, <2>1, <2>2 DEF FactoryTypeOK, ResumeFactory
<1>3. CASE ClearFactory(f)
  BY <1>3, FactoryAssumption DEF FactoryTypeOK, ClearFactory
<1>4. CASE DeleteFactory(f)
  <2>1. sweep' \in [op : {"none", "pause", "resume", "delete"}, todo : SUBSET Listener]
    BY <1>0, <1>4, SweepType DEF DeleteFactory
  <2>2. QED
    BY <1>4, <2>1, FactoryAssumption DEF FactoryTypeOK, DeleteFactory
<1>5. QED
  BY <1>1, <1>2, <1>3, <1>4

LEMMA SweepListenerType ==
  ASSUME NEW l \in Listener, NEW q \in Seq(Listener), FactoryTypeOK, SweepListener(l, q)
  PROVE  FactoryTypeOK'
<1>1. ListenersTypeOK'
  BY PauseListenerType, ResumeListenerType, DeleteListenerType
     DEF SweepListener, FactoryTypeOK
<1>2. sweep.op \in {"pause", "resume", "delete"} /\ sweep.todo \ {l} \in SUBSET Listener
  BY DEF SweepListener, FactoryTypeOK
<1>3. sweep' \in [op : {"none", "pause", "resume", "delete"}, todo : SUBSET Listener]
  BY <1>2, SweepType DEF SweepListener
<1>4. QED
  BY <1>1, <1>3 DEF SweepListener, FactoryTypeOK, ListenersTypeOK

-----------------------------------------------------------------------------

(***************************************************************************)
(* The inductive invariant.                                                *)
(***************************************************************************)

\* The list and the listeners agree: a listener is marked as registered
\* exactly while it is not paused, and then it is listed.
QueueInv ==
  /\ ToSet(queue) \subseteq Live
  /\ ListedOnceUnlessPaused
  /\ NoOrphanedListener
  /\ \A l \in Live : registered[l] <=> paused[l] = 0
  /\ \A l \in Listener \ Live : owner[l] = NoFactory /\ ~registered[l]

\* The loop of a factory over its listeners only meets one whose callback is
\* being executed if it resumes them, and no pause level overflows.
SweepOK ==
  /\ sweep.todo \subseteq Live
  /\ \A l \in sweep.todo : owner[l] # NoFactory
  /\ sweep.todo \cap Running # {} => sweep.op = "resume"
  /\ sweep.op = "pause" => \A l \in sweep.todo : paused[l] < PauseMod - 1
  /\ stack # <<>> /\ ~Top.called => sweep.todo = {}

\* Walk w has its iterator in list q, and those it has yet to execute or to
\* delete are not behind it.  A listener whose callback is being executed is
\* none of them any more.
WalkInv(w, q, r) ==
  /\ ~w.erased
  /\ w.at # 0 => w.at \in ToSet(q)
  /\ w.called => /\ w.at # 0 /\ w.at \notin Unconnected
                 /\ w.at \notin w.execute \cup w.delete
  /\ \A l \in w.execute : w.event \in Matching[l] /\ r[l] # 0
  /\ \A l \in w.delete : r[l] = 0
  /\ \A l \in w.execute \cup w.delete : w.at # 0 /\ l \in ToSet(q) /\ NotAfter(q, w.at, l)

\* A walk below another one is executing a callback, and no walk above it
\* counts its listener down.
NestedInv ==
  \A i, j \in DOMAIN stack : i < j =>
    /\ stack[i].called
    /\ repeat[stack[i].at] # 0
    /\ stack[j].event \in Matching[stack[i].at] => repeat[stack[i].at] < 0

StackInv ==
  /\ \A i \in DOMAIN stack : WalkInv(stack[i], queue, repeat)
  /\ NestedInv

IInv ==
  /\ TypeOK
  /\ QueueInv
  /\ SweepOK
  /\ StackInv

\* Initially there are neither listeners nor walks.
LEMMA InitInv == Init => IInv
<1>1. SUFFICES ASSUME Init
               PROVE  IInv
  OBVIOUS
<1>2. queue = <<>> /\ ToSet(queue) = {} /\ DOMAIN queue = {}
  BY <1>1 DEF Init, FactoryInit, ToSet
<1>3. Live = {} /\ sweep.todo = {} /\ sweep.op = "none"
  BY <1>1 DEF Init, FactoryInit, Live, NoSweep
<1>4. stack = <<>> /\ DOMAIN stack = {} /\ stack \in Seq(Walk)
  BY <1>1 DEF Init
<1>5. TypeOK
  BY <1>1, <1>4, FactoryInitType DEF Init, TypeOK
<1>6. QueueInv
  BY <1>1, <1>2, <1>3 DEF Init, FactoryInit, QueueInv, ListedOnceUnlessPaused, NoOrphanedListener
<1>7. SweepOK
  BY <1>3, <1>4 DEF SweepOK
<1>8. StackInv
  BY <1>4 DEF StackInv, NestedInv
<1>9. QED
  BY <1>5, <1>6, <1>7, <1>8 DEF IInv

-----------------------------------------------------------------------------
(***************************************************************************)
(* The operations on a listener and the list.                              *)
(***************************************************************************)

\* The list in the terms of the lemmas about lists.
LEMMA QueueFacts ==
  ASSUME FactoryTypeOK, QueueInv
  PROVE  queue \in Seq(Listener) /\ Distinct(queue)
BY DEF FactoryTypeOK, QueueInv, ListedOnceUnlessPaused, Distinct

LEMMA PauseListenerInv ==
  ASSUME FactoryTypeOK, QueueInv, NEW l \in Live, PauseListener(l),
         owner[l] # NoFactory, paused[l] < PauseMod - 1
  PROVE  /\ QueueInv' /\ SameOrder(queue, queue')
         /\ ToSet(queue') = ToSet(queue) \ {l}
<1>1. /\ l \in Listener /\ l \in Live
      /\ paused[l] \in 0 .. PauseMod - 1 /\ (paused[l] + 1) % PauseMod = paused[l] + 1
  <2>1. l \in Listener /\ l \in Live
    BY DEF Live
  <2>2. paused[l] \in 0 .. PauseMod - 1
    BY <2>1 DEF FactoryTypeOK
  <2>3. QED
    BY <2>1, <2>2, LevelUpExact
<1>2. /\ Distinct(queue') /\ SameOrder(queue, queue')
      /\ ToSet(queue') = ToSet(queue) \ {l}
      /\ registered' = [registered EXCEPT ![l] = FALSE]
  <2>1. CASE paused[l] = 0
    BY <2>1, QueueFacts, RemoveFirstDistinct, RemoveFirstOrder DEF PauseListener, ManagerRemove
  <2>2. CASE paused[l] # 0
    <3>1. l \notin ToSet(queue) /\ ~registered[l]
      BY <1>1, <2>2 DEF QueueInv, ListedOnceUnlessPaused
    <3>2. registered' = registered /\ queue' = queue
      BY <2>2 DEF PauseListener
    <3>3. registered = [registered EXCEPT ![l] = FALSE]
      BY <3>1, <1>1 DEF FactoryTypeOK
    <3>4. SameOrder(queue, queue') /\ ToSet(queue') = ToSet(queue) \ {l}
      BY <3>1, <3>2 DEF SameOrder
    <3>5. QED
      BY <3>2, <3>3, <3>4, QueueFacts
  <2>3. QED
    BY <2>1, <2>2
<1>3. /\ paused' = [paused EXCEPT ![l] = paused[l] + 1]
      /\ Live' = Live /\ owner' = owner
  BY <1>1 DEF PauseListener, Live
<1>4. ListedOnceUnlessPaused'
  BY <1>1, <1>2, <1>3 DEF QueueInv, ListedOnceUnlessPaused, Distinct, Live, FactoryTypeOK
<1>5. NoOrphanedListener'
  BY <1>1, <1>2, <1>3 DEF QueueInv, NoOrphanedListener
<1>6. QueueInv'
  BY <1>1, <1>2, <1>3, <1>4, <1>5 DEF QueueInv, Live, FactoryTypeOK
<1>7. QED
  BY <1>2, <1>6

LEMMA ResumeListenerInv ==
  ASSUME FactoryTypeOK, QueueInv, NEW l \in Live, ResumeListener(l, Append(queue, l))
  PROVE  /\ QueueInv' /\ SameOrder(queue, queue')
         /\ ToSet(queue) \subseteq ToSet(queue')
<1>1. l \in Listener /\ paused[l] \in Nat /\ paused \in [Listener -> 0 .. PauseMod - 1]
  <2>1. l \in Listener
    BY DEF Live
  <2>2. paused \in [Listener -> 0 .. PauseMod - 1]
    BY DEF FactoryTypeOK
  <2>3. paused[l] \in 0 .. PauseMod - 1
    BY <2>1, <2>2
  <2>4. QED
    BY <2>1, <2>2, <2>3
<1>2. /\ Live' = Live /\ owner' = owner
  BY DEF ResumeListener, Live
<1>3. CASE paused[l] = 0
  <2>1. registered[l]
    BY <1>1, <1>3 DEF QueueInv
  <2>2. paused' = paused /\ registered' = registered /\ queue' = queue
    BY <1>1, <1>3, <2>1 DEF ResumeListener
  <2>3. QED
    BY <1>2, <2>2 DEF QueueInv, ListedOnceUnlessPaused, NoOrphanedListener, SameOrder
<1>4. CASE paused[l] # 0 /\ paused[l] # 1
  <2>1. /\ paused' = [paused EXCEPT ![l] = paused[l] - 1] /\ registered' = registered
        /\ queue' = queue
    BY <1>1, <1>4 DEF ResumeListener
  <2>2. ListedOnceUnlessPaused' /\ NoOrphanedListener'
    BY <1>1, <1>2, <1>4, <2>1 DEF QueueInv, ListedOnceUnlessPaused, NoOrphanedListener, Live
  <2>3. QueueInv'
    BY <1>1, <1>2, <1>4, <2>1, <2>2 DEF QueueInv, Live
  <2>4. QED
    BY <2>1, <2>3 DEF SameOrder
<1>5. CASE paused[l] = 1
  <2>1. /\ paused' = [paused EXCEPT ![l] = 0] /\ registered' = [registered EXCEPT ![l] = TRUE]
        /\ queue' = Append(queue, l)
    BY <1>1, <1>5 DEF ResumeListener, ManagerAdd
  <2>2. l \notin ToSet(queue)
    BY <1>1, <1>5 DEF QueueInv, ListedOnceUnlessPaused
  <2>3. /\ Distinct(queue') /\ ToSet(queue') = ToSet(queue) \cup {l}
        /\ SameOrder(queue, queue')
    BY <1>1, <2>1, <2>2, QueueFacts, AppendNew
  <2>4. ListedOnceUnlessPaused'
    BY <1>1, <1>2, <2>1, <2>2, <2>3 DEF QueueInv, ListedOnceUnlessPaused, Distinct, Live
  <2>5. NoOrphanedListener'
    BY <1>2, <2>3 DEF QueueInv, NoOrphanedListener
  <2>6. QueueInv'
    BY <1>1, <1>2, <2>1, <2>3, <2>4, <2>5 DEF QueueInv, Live, FactoryTypeOK
  <2>7. QED
    BY <2>3, <2>6
<1>6. QED
  BY <1>1, <1>3, <1>4, <1>5

\* A listener is deleted by its factory, or by a walk that has just erased it.
LEMMA DeleteListenerInv ==
  ASSUME FactoryTypeOK, QueueInv, NEW l \in Live, NEW q \in {queue, RemoveFirst(queue, l)},
         DeleteListener(l, q)
  PROVE  /\ QueueInv' /\ SameOrder(queue, queue')
         /\ ToSet(queue') = ToSet(queue) \ {l}
<1>1. l \in Listener /\ (registered[l] <=> l \in ToSet(queue))
  BY DEF Live, QueueInv, ListedOnceUnlessPaused
<1>2. /\ q \in Seq(Listener) /\ Distinct(q) /\ SameOrder(queue, q)
      /\ ToSet(q) \ {l} = ToSet(queue) \ {l}
      /\ l \in ToSet(q) => l \in ToSet(queue)
  <2>1. SameOrder(queue, queue)
    BY DEF SameOrder
  <2>2. /\ RemoveFirst(queue, l) \in Seq(Listener) /\ Distinct(RemoveFirst(queue, l))
        /\ ToSet(RemoveFirst(queue, l)) = ToSet(queue) \ {l}
        /\ SameOrder(queue, RemoveFirst(queue, l))
    BY QueueFacts, RemoveFirstDistinct, RemoveFirstOrder
  <2>3. QED
    BY <2>1, <2>2, QueueFacts
<1>3. /\ Distinct(queue') /\ SameOrder(queue, queue')
      /\ ToSet(queue') = ToSet(queue) \ {l}
  <2>1. CASE registered[l]
    <3>1. queue' = RemoveFirst(q, l)
      BY <2>1 DEF DeleteListener
    <3>2. /\ Distinct(queue') /\ ToSet(queue') = ToSet(q) \ {l} /\ SameOrder(q, queue')
      BY <1>2, <3>1, RemoveFirstDistinct, RemoveFirstOrder
    <3>3. SameOrder(queue, queue')
      BY <1>2, <3>2, SameOrderTwice
    <3>4. QED
      BY <1>2, <3>2, <3>3
  <2>2. CASE ~registered[l]
    <3>1. queue' = q /\ l \notin ToSet(q)
      BY <1>1, <1>2, <2>2 DEF DeleteListener
    <3>2. QED
      BY <1>2, <3>1
  <2>3. QED
    BY <2>1, <2>2
<1>4. /\ Live' = Live \ {l} /\ paused' = paused
      /\ owner' = [owner EXCEPT ![l] = NoFactory]
      /\ registered' = [registered EXCEPT ![l] = FALSE]
  BY <1>1 DEF DeleteListener, Live, FactoryTypeOK
<1>5. ListedOnceUnlessPaused'
  BY <1>3, <1>4 DEF QueueInv, ListedOnceUnlessPaused, Distinct
<1>6. NoOrphanedListener'
  BY <1>1, <1>3, <1>4 DEF QueueInv, NoOrphanedListener, FactoryTypeOK, Live
<1>7. QueueInv'
  BY <1>1, <1>3, <1>4, <1>5, <1>6 DEF QueueInv, Live, FactoryTypeOK
<1>8. QED
  BY <1>3, <1>7

\* The name of a new listener is a fresh one.
LEMMA AddListenerInv ==
  ASSUME FactoryTypeOK, QueueInv, NEW f \in Factory, NEW l \in Listener, NEW r \in Int,
         AddListener(f, l, r, Append(queue, l))
  PROVE  /\ QueueInv' /\ SameOrder(queue, queue')
         /\ ToSet(queue) \subseteq ToSet(queue')
         /\ l \notin ToSet(queue)
<1>1. /\ life[l] = "unborn" /\ l \notin Live /\ l \notin ToSet(queue)
      /\ ~registered[l] /\ owner[l] = NoFactory /\ f # NoFactory
  BY FactoryAssumption DEF AddListener, NextListener, Live, QueueInv, Listener
<1>2. /\ life' = [life EXCEPT ![l] = "live"] /\ owner' = [owner EXCEPT ![l] = f]
      /\ paused' = [paused EXCEPT ![l] = fpaused[f]]
  BY DEF AddListener
<1>3. Live' = Live \cup {l}
  BY <1>2 DEF Live, FactoryTypeOK
<1>4. CASE fpaused[f] = 0
  <2>1. queue' = Append(queue, l) /\ registered' = [registered EXCEPT ![l] = TRUE]
    BY <1>4 DEF AddListener, ManagerAdd
  <2>2. /\ Distinct(queue') /\ ToSet(queue') = ToSet(queue) \cup {l}
        /\ SameOrder(queue, queue')
    BY <1>1, <2>1, QueueFacts, AppendNew
  <2>3. ListedOnceUnlessPaused'
    BY <1>1, <1>2, <1>3, <1>4, <2>2 DEF QueueInv, ListedOnceUnlessPaused, Distinct, Live, FactoryTypeOK
  <2>4. NoOrphanedListener'
    BY <1>1, <1>2, <1>3, <2>2 DEF QueueInv, NoOrphanedListener, FactoryTypeOK, Live
  <2>5. QueueInv'
    BY <1>1, <1>2, <1>3, <1>4, <2>1, <2>2, <2>3, <2>4 DEF QueueInv, Live, FactoryTypeOK
  <2>6. QED
    BY <1>1, <2>2, <2>5
<1>5. CASE fpaused[f] # 0
  <2>1. queue' = queue /\ registered' = registered
    BY <1>5 DEF AddListener
  <2>2. ListedOnceUnlessPaused'
    BY <1>1, <1>2, <1>3, <1>5, <2>1 DEF QueueInv, ListedOnceUnlessPaused, Live, FactoryTypeOK
  <2>3. NoOrphanedListener'
    BY <1>1, <1>2, <1>3, <2>1 DEF QueueInv, NoOrphanedListener, FactoryTypeOK, Live
  <2>4. QueueInv'
    BY <1>1, <1>2, <1>3, <1>5, <2>1, <2>2, <2>3 DEF QueueInv, Live, FactoryTypeOK
  <2>5. QED
    BY <1>1, <2>1, <2>4 DEF SameOrder
<1>6. QED
  BY <1>4, <1>5

-----------------------------------------------------------------------------
(***************************************************************************)
(* The walks.                                                              *)
(***************************************************************************)

\* Where an iterator goes from an element of the list: those that are not
\* before the element, and are not the element, are not before the next one.
LEMMA SuccessorFacts ==
  ASSUME NEW q \in Seq(Listener), Distinct(q), NEW a \in ToSet(q)
  PROVE  /\ Successor(q, a) # 0 => Successor(q, a) \in ToSet(q) \ {a}
         /\ \A b \in ToSet(q) \ {a} :
              NotAfter(q, a, b) => Successor(q, a) # 0 /\ NotAfter(q, Successor(q, a), b)
<1> DEFINE n == Len(q)
<1>1. n \in Nat /\ DOMAIN q = 1 .. n /\ \A i \in 1 .. n : q[i] \in Listener
  BY LenProperties
<1>5. Last(q) = q[n]
  BY DEF Last
<1> HIDE DEF n
<1>2. PICK i \in 1 .. n : q[i] = a
  BY <1>1 DEF ToSet
<1>3. \A k \in 1 .. n : q[k] = a => k = i
  BY <1>1, <1>2 DEF Distinct
<1>4. (CHOOSE k \in DOMAIN q : q[k] = a) = i
  BY <1>1, <1>2, <1>3
<1>6. CASE i = n
  <2>1. Successor(q, a) = 0
    BY <1>2, <1>5, <1>6 DEF Successor
  <2>2. ASSUME NEW b \in ToSet(q) \ {a}, NotAfter(q, a, b)
        PROVE  FALSE
    <3>1. PICK m \in 1 .. n, k \in 1 .. n : m <= k /\ q[m] = a /\ q[k] = b
      BY <1>1, <2>2 DEF NotAfter
    <3>2. m = n /\ k # n
      BY <1>2, <1>3, <1>6, <2>2, <3>1
    <3>3. QED
      BY <1>1, <3>1, <3>2
  <2>3. QED
    BY <2>1, <2>2
<1>7. CASE i # n
  <2>1. a # Last(q)
    BY <1>1, <1>2, <1>3, <1>5, <1>7
  <2>2. Successor(q, a) = q[1 + i]
    BY <1>4, <2>1 DEF Successor
  <2>3. i + 1 \in 1 .. n /\ 1 + i = i + 1
    <3>1. n \in Nat /\ i \in 1 .. n /\ i # n
      BY <1>1, <1>2, <1>7
    <3>2. QED
      BY <3>1
  <2>4. q[i + 1] \in ToSet(q) /\ q[i + 1] # a /\ q[i + 1] # 0
    <3>1. q[i + 1] # a
      BY <1>2, <1>3, <2>3
    <3>2. q[i + 1] # 0
      BY <1>1, <2>3 DEF Listener
    <3>3. QED
      BY <1>1, <2>3, <3>1, <3>2 DEF ToSet
  <2>5. ASSUME NEW b \in ToSet(q) \ {a}, NotAfter(q, a, b)
        PROVE  NotAfter(q, q[i + 1], b)
    <3>1. PICK m \in 1 .. n, k \in 1 .. n : m <= k /\ q[m] = a /\ q[k] = b
      BY <1>1, <2>5 DEF NotAfter
    <3>2. m = i /\ k # i
      BY <1>2, <1>3, <2>5, <3>1
    <3>3. i + 1 <= k
      BY <1>2, <3>1, <3>2
    <3>4. QED
      BY <1>1, <2>3, <3>1, <3>3 DEF NotAfter
  <2>6. QED
    BY <2>2, <2>3, <2>4, <2>5
<1>8. QED
  BY <1>6, <1>7

\* The stack as a sequence.
LEMMA StackFacts ==
  ASSUME TypeOK
  PROVE  /\ Len(stack) \in Nat /\ DOMAIN stack = 1 .. Len(stack)
         /\ \A i \in DOMAIN stack : stack[i] \in Walk
         /\ stack # <<>> => Len(stack) \in DOMAIN stack /\ Top = stack[Len(stack)]
<1>1. stack \in Seq(Walk)
  BY DEF TypeOK
<1>2. Len(stack) \in Nat /\ DOMAIN stack = 1 .. Len(stack) /\ stack \in [1 .. Len(stack) -> Walk]
  BY <1>1, LenProperties
<1>3. stack # <<>> => Len(stack) # 0
  BY <1>1, EmptySeq
<1>4. QED
  BY <1>2, <1>3 DEF Top, Last

LEMMA SequenceOfWalks ==
  ASSUME NEW n \in Nat, NEW s \in [1 .. n -> Walk]
  PROVE  s \in Seq(Walk) /\ Len(s) = n /\ DOMAIN s = 1 .. n
<1>1. s \in Seq(Walk)
  BY SeqDef
<1>2. DOMAIN s = 1 .. n
  OBVIOUS
<1>3. Len(s) \in Nat /\ DOMAIN s = 1 .. Len(s)
  BY <1>1, LenProperties
<1>4. Len(s) = n
  BY <1>2, <1>3
<1>5. QED
  BY <1>1, <1>2, <1>4

\* What happens to the list and to the repeat counts leaves a walk sound as
\* long as the element its iterator points to stays in the list.
LEMMA TouchedInv ==
  ASSUME TypeOK, NEW w \in Walk, WalkInv(w, queue, repeat),
         w.at # 0 => w.at \in ToSet(queue'), SameOrder(queue, queue'),
         \A l \in ToSet(queue) : repeat[l] = 0 => repeat'[l] = 0
  PROVE  /\ Touched(w) \in Walk /\ WalkInv(Touched(w), queue', repeat')
         /\ Touched(w).at = w.at /\ Touched(w).called = w.called /\ Touched(w).event = w.event
<1> DEFINE t == Touched(w)
<1>1. /\ t = [w EXCEPT !.erased = FALSE,
                       !.execute = {l \in w.execute : l \in ToSet(queue') /\ repeat'[l] # 0},
                       !.delete = w.delete \cap ToSet(queue')]
  <2>1. w.erased = FALSE /\ ~ (w.at \in ToSet(queue) /\ w.at \notin ToSet(queue'))
    <3>1. 0 \notin ToSet(queue)
      <4>1. queue \in Seq(Listener)
        BY DEF TypeOK, FactoryTypeOK
      <4>2. \A i \in DOMAIN queue : queue[i] \in Listener
        BY <4>1, LenProperties
      <4>3. QED
        BY <4>2 DEF ToSet, Listener
    <3>2. QED
      BY <3>1 DEF WalkInv, Walk
  <2>2. QED
    BY <2>1 DEF Touched
<1>2. /\ t.at = w.at /\ t.called = w.called /\ t.event = w.event /\ t.erased = FALSE
      /\ t.execute = {l \in w.execute : l \in ToSet(queue') /\ repeat'[l] # 0}
      /\ t.delete = w.delete \cap ToSet(queue')
      /\ t \in Walk
  BY <1>1 DEF Walk
<1> HIDE DEF t
<1>3. WalkInv(t, queue', repeat')
  <2>1. t.called => /\ t.at # 0 /\ t.at \notin Unconnected
                    /\ t.at \notin t.execute \cup t.delete
    BY <1>2 DEF WalkInv
  <2>2. \A l \in t.execute : t.event \in Matching[l] /\ repeat'[l] # 0
    BY <1>2 DEF WalkInv
  <2>3. \A l \in t.delete : repeat'[l] = 0
    BY <1>2 DEF WalkInv
  <2>4. \A l \in t.execute \cup t.delete :
          t.at # 0 /\ l \in ToSet(queue') /\ NotAfter(queue', t.at, l)
    <3>1. SUFFICES ASSUME NEW l \in t.execute \cup t.delete
                   PROVE  t.at # 0 /\ l \in ToSet(queue') /\ NotAfter(queue', t.at, l)
      OBVIOUS
    <3>2. l \in w.execute \cup w.delete /\ l \in ToSet(queue')
      BY <1>2
    <3>3. /\ w.at # 0 /\ l \in ToSet(queue) /\ NotAfter(queue, w.at, l)
          /\ w.at \in ToSet(queue) /\ w.at \in ToSet(queue')
      BY <3>2 DEF WalkInv
    <3>4. QED
      BY <1>2, <3>2, <3>3 DEF SameOrder
  <2>5. QED
    BY <1>2, <2>1, <2>2, <2>3, <2>4 DEF WalkInv
<1>4. QED
  BY <1>2, <1>3 DEF t

\* The list and the counts change such that the walks S can go on.
Spared(S) ==
  /\ SameOrder(queue, queue')
  /\ \A i \in S : stack[i].at # 0 => stack[i].at \in ToSet(queue')
  /\ \A l \in ToSet(queue) : repeat[l] = 0 => repeat'[l] = 0
  /\ \A i \in 1 .. Len(stack) - 1 : repeat'[stack[i].at] = repeat[stack[i].at]

\* Meanwhile no walk goes on.
LEMMA HaltInv ==
  ASSUME TypeOK, StackInv, Halt, Spared(DOMAIN stack)
  PROVE  /\ stack' \in Seq(Walk) /\ StackInv'
         /\ Len(stack') = Len(stack)
         /\ \A i \in DOMAIN stack : /\ stack'[i].at = stack[i].at
                                    /\ stack'[i].called = stack[i].called
<1>1. /\ Len(stack) \in Nat /\ DOMAIN stack = 1 .. Len(stack)
      /\ \A i \in DOMAIN stack : stack[i] \in Walk /\ WalkInv(stack[i], queue, repeat)
  BY StackFacts DEF StackInv
<1>2. \A i \in DOMAIN stack :
        /\ Touched(stack[i]) \in Walk /\ WalkInv(Touched(stack[i]), queue', repeat')
        /\ Touched(stack[i]).at = stack[i].at /\ Touched(stack[i]).called = stack[i].called
        /\ Touched(stack[i]).event = stack[i].event
  BY <1>1, TouchedInv DEF Spared
<1>3. stack' = [i \in 1 .. Len(stack) |-> Touched(stack[i])]
  BY <1>1 DEF Halt, TouchedStack
<1>4. stack' \in Seq(Walk) /\ Len(stack') = Len(stack) /\ DOMAIN stack' = DOMAIN stack
  <2>1. stack' \in [1 .. Len(stack) -> Walk]
    BY <1>1, <1>2, <1>3
  <2>2. QED
    BY <1>1, <2>1, SequenceOfWalks
<1>5. \A i \in DOMAIN stack : stack'[i] = Touched(stack[i])
  BY <1>1, <1>3
<1>6. \A i \in DOMAIN stack' : WalkInv(stack'[i], queue', repeat')
  BY <1>2, <1>4, <1>5
<1>7. NestedInv'
  <2>1. SUFFICES ASSUME NEW i \in DOMAIN stack, NEW j \in DOMAIN stack, i < j
                 PROVE  /\ stack'[i].called
                        /\ repeat'[stack'[i].at] # 0
                        /\ stack'[j].event \in Matching[stack'[i].at] => repeat'[stack'[i].at] < 0
    BY <1>4 DEF NestedInv
  <2>2. i \in 1 .. Len(stack) - 1
    BY <1>1, <2>1
  <2>3. repeat'[stack[i].at] = repeat[stack[i].at]
    BY <2>2 DEF Spared
  <2>4. QED
    BY <1>2, <1>5, <2>1, <2>3 DEF StackInv, NestedInv
<1>8. QED
  BY <1>2, <1>4, <1>5, <1>6, <1>7 DEF StackInv

\* The innermost walk goes on as w, the others can go on later.
LEMMA ProceedInv ==
  ASSUME TypeOK, StackInv, stack # <<>>, NEW w \in Walk, Proceed(w),
         Spared(1 .. Len(stack) - 1), WalkInv(w, queue', repeat'), w.event = Top.event
  PROVE  /\ stack' \in Seq(Walk) /\ StackInv'
         /\ stack' # <<>> /\ Len(stack') = Len(stack) /\ Top' = w
         /\ \A i \in 1 .. Len(stack) - 1 : /\ stack'[i].at = stack[i].at
                                           /\ stack'[i].called = stack[i].called
<1> DEFINE n == Len(stack)
           B == 1 .. n - 1
<1>1. /\ n \in Nat /\ n \in DOMAIN stack /\ DOMAIN stack = 1 .. n /\ Top = stack[n]
      /\ \A i \in DOMAIN stack : stack[i] \in Walk /\ WalkInv(stack[i], queue, repeat)
      /\ \A i \in DOMAIN stack : i \in B \/ i = n
      /\ \A i \in B : i \in DOMAIN stack /\ i # n
  <2>1. /\ n \in Nat /\ n \in DOMAIN stack /\ DOMAIN stack = 1 .. n /\ Top = stack[n]
        /\ \A i \in DOMAIN stack : stack[i] \in Walk /\ WalkInv(stack[i], queue, repeat)
    BY StackFacts DEF StackInv
  <2> HIDE DEF n
  <2>2. /\ \A i \in 1 .. n : i \in B \/ i = n
        /\ \A i \in B : i \in 1 .. n /\ i # n
    BY <2>1
  <2>3. QED
    BY <2>1, <2>2
<1>2. \A i \in B :
        /\ Touched(stack[i]) \in Walk /\ WalkInv(Touched(stack[i]), queue', repeat')
        /\ Touched(stack[i]).at = stack[i].at /\ Touched(stack[i]).called = stack[i].called
        /\ Touched(stack[i]).event = stack[i].event
  BY <1>1, TouchedInv DEF Spared
<1>3. /\ stack' = [[i \in 1 .. n |-> Touched(stack[i])] EXCEPT ![n] = w]
  BY <1>1 DEF Proceed, TouchedStack
<1> HIDE DEF n
<1>4. stack'[n] = w /\ \A i \in B : stack'[i] = Touched(stack[i])
  BY <1>1, <1>3
<1>5. stack' \in Seq(Walk) /\ Len(stack') = n /\ DOMAIN stack' = DOMAIN stack
  <2>1. stack' \in [1 .. n -> Walk]
    <3>1. DOMAIN stack' = 1 .. n
      BY <1>3
    <3>2. \A i \in 1 .. n : stack'[i] \in Walk
      BY <1>1, <1>2, <1>4
    <3>3. stack' = [i \in 1 .. n |-> stack'[i]]
      BY <1>3
    <3>4. QED
      BY <3>1, <3>2, <3>3
  <2>2. QED
    BY <1>1, <2>1, SequenceOfWalks
<1>6. \A i \in DOMAIN stack' : WalkInv(stack'[i], queue', repeat')
  BY <1>1, <1>2, <1>4, <1>5
<1>7. NestedInv'
  <2>1. SUFFICES ASSUME NEW i \in DOMAIN stack, NEW j \in DOMAIN stack, i < j
                 PROVE  /\ stack'[i].called
                        /\ repeat'[stack'[i].at] # 0
                        /\ stack'[j].event \in Matching[stack'[i].at] => repeat'[stack'[i].at] < 0
    BY <1>5 DEF NestedInv
  <2>2. i \in B
    BY <1>1, <2>1
  <2>3. repeat'[stack[i].at] = repeat[stack[i].at]
    BY <2>2 DEF Spared, n
  <2>4. stack'[j].event = stack[j].event
    BY <1>1, <1>2, <1>4
  <2>5. stack'[i].at = stack[i].at /\ stack'[i].called = stack[i].called
    BY <1>2, <1>4, <2>2
  <2>6. QED
    BY <2>1, <2>3, <2>4, <2>5 DEF StackInv, NestedInv
<1>8. stack' # <<>> /\ Top' = w
  <2>1. Len(stack') # 0
    BY <1>1, <1>5
  <2>2. QED
    BY <1>4, <1>5, <2>1 DEF Top, Last
<1>9. QED
  BY <1>2, <1>4, <1>5, <1>6, <1>7, <1>8 DEF StackInv, n

-----------------------------------------------------------------------------
(***************************************************************************)
(* The steps of scripts and of loops: all walks are executing callbacks.   *)
(***************************************************************************)

LEMMA AllRunning ==
  ASSUME IInv, stack # <<>> => Top.called
  PROVE  /\ \A i \in DOMAIN stack : /\ stack[i].called /\ stack[i].at # 0
                                    /\ stack[i].at \in Running /\ stack[i].at \in ToSet(queue)
         /\ \A i \in 1 .. Len(stack) - 1 : i \in DOMAIN stack /\ stack[i].at \in Outer
<1>1. /\ Len(stack) \in Nat /\ DOMAIN stack = 1 .. Len(stack)
      /\ stack # <<>> => Top = stack[Len(stack)]
      /\ \A i \in DOMAIN stack : WalkInv(stack[i], queue, repeat)
  BY StackFacts DEF IInv, StackInv
<1>2. \A i \in 1 .. Len(stack) - 1 : i \in DOMAIN stack /\ stack[i].at \in Outer
  BY <1>1 DEF Outer
<1>3. \A i \in DOMAIN stack : stack[i].called
  <2>1. SUFFICES ASSUME NEW i \in DOMAIN stack
                 PROVE  stack[i].called
    OBVIOUS
  <2>2. CASE i = Len(stack)
    <3>1. stack # <<>>
      BY <2>1
    <3>2. QED
      BY <1>1, <2>2, <3>1
  <2>3. CASE i # Len(stack)
    <3>1. Len(stack) \in DOMAIN stack /\ i < Len(stack)
      BY <1>1, <2>3
    <3>2. QED
      BY <3>1 DEF IInv, StackInv, NestedInv
  <2>4. QED
    BY <2>2, <2>3
<1>4. QED
  BY <1>1, <1>2, <1>3 DEF WalkInv, Running

\* A step during which no walk goes on.
LEMMA HaltStep ==
  ASSUME IInv, stack # <<>> => Top.called, Halt, FactoryTypeOK',
         SameOrder(queue, queue'), Running \subseteq ToSet(queue'),
         \A l \in ToSet(queue) : repeat[l] = 0 => repeat'[l] = 0,
         \A l \in Outer : repeat'[l] = repeat[l]
  PROVE  /\ TypeOK' /\ StackInv' /\ Running' = Running
         /\ stack' # <<>> => Top'.called
<1>1. Spared(DOMAIN stack)
  BY AllRunning DEF Spared
<1>2. /\ stack' \in Seq(Walk) /\ StackInv'
      /\ Len(stack') = Len(stack)
      /\ \A i \in DOMAIN stack : /\ stack'[i].at = stack[i].at
                                 /\ stack'[i].called = stack[i].called
  BY <1>1, HaltInv DEF IInv
<1>3. TypeOK'
  BY <1>2 DEF TypeOK
<1>4. /\ Len(stack) \in Nat /\ DOMAIN stack' = DOMAIN stack /\ DOMAIN stack = 1 .. Len(stack)
  <2>1. DOMAIN stack = 1 .. Len(stack) /\ Len(stack) \in Nat
    BY StackFacts DEF IInv
  <2>2. DOMAIN stack' = 1 .. Len(stack')
    BY <1>2, LenProperties
  <2>3. QED
    BY <1>2, <2>1, <2>2
<1>5. Running' = Running
  BY <1>2, <1>4 DEF Running
<1>6. ASSUME stack' # <<>>
      PROVE  Top'.called
  <2>1. Len(stack') # 0
    BY <1>2, <1>6, EmptySeq
  <2>2. Len(stack) \in DOMAIN stack
    BY <1>2, <1>4, <2>1
  <2>3. Top' = stack'[Len(stack)] 
    BY <1>2 DEF Top, Last
  <2>4. QED
    BY <1>2, <2>2, <2>3, AllRunning
<1>7. QED
  BY <1>2, <1>3, <1>5, <1>6

\* Whoever belongs to a factory exists.
LEMMA MembersLive ==
  ASSUME QueueInv, NEW f \in Factory
  PROVE  /\ Members(f) \subseteq Live
         /\ \A l \in Members(f) : owner[l] # NoFactory
BY FactoryAssumption DEF Members, QueueInv

\* A step that changes neither the list nor what the list depends on.
LEMMA ListUntouched ==
  ASSUME QueueInv, UNCHANGED <<life, owner, paused, registered, queue>>
  PROVE  QueueInv' /\ SameOrder(queue, queue')
BY DEF QueueInv, ListedOnceUnlessPaused, NoOrphanedListener, Live, SameOrder

\* No loop is under way, or one begins over the listeners S of a factory.
LEMMA NoLoop == ASSUME sweep'.todo = {}
                PROVE  SweepOK'
BY DEF SweepOK

LEMMA SweepStarts ==
  ASSUME NEW op \in {"pause", "resume", "delete"}, NEW S \in SUBSET Live,
         \A l \in S : owner[l] # NoFactory,
         S \cap Running # {} => op = "resume",
         op = "pause" => \A l \in S : paused[l] < PauseMod - 1,
         sweep' = Sweep(op, S), UNCHANGED <<life, owner, paused>>,
         Running' = Running, stack' # <<>> => Top'.called
  PROVE  SweepOK'
<1>1. sweep'.todo = S /\ (S # {} => sweep'.op = op)
  BY DEF Sweep, NoSweep
<1>2. Live' = Live
  BY DEF Live
<1>3. QED
  BY <1>1, <1>2 DEF SweepOK

\* Loops that scripts begin.
LEMMA LoopInv ==
  ASSUME WellBehaved, IInv, NEW f \in Factory, Pause(f) \/ Resume(f) \/ Delete(f)
  PROVE  IInv'
<1>0. TypeOK /\ FactoryTypeOK /\ QueueInv /\ SweepOK /\ StackInv
  BY DEF IInv, TypeOK
<1>1. /\ UNCHANGED <<life, owner, repeat, paused, registered, queue>> /\ Halt
      /\ stack # <<>> => Top.called
      /\ PauseFactory(f) \/ ResumeFactory(f) \/ DeleteFactory(f)
  BY DEF Pause, Resume, Delete, PauseFactory, ResumeFactory, DeleteFactory, Permitted
<1>2. FactoryTypeOK'
  BY <1>0, <1>1, FactoryOpType
<1>3. QueueInv' /\ SameOrder(queue, queue')
  BY <1>0, <1>1, ListUntouched
<1>4. Running \subseteq ToSet(queue')
  BY <1>0, <1>1 DEF Running, StackInv, WalkInv
<1>5. /\ TypeOK' /\ StackInv' /\ Running' = Running
      /\ stack' # <<>> => Top'.called
  BY <1>1, <1>2, <1>3, <1>4, HaltStep
<1>6. Members(f) \in SUBSET Live /\ \A l \in Members(f) : owner[l] # NoFactory
  BY <1>0, MembersLive
<1>7. SweepOK'
  <2>1. CASE Pause(f)
    <3>1. /\ \A l \in Members(f) : paused[l] < PauseMod - 1
          /\ Members(f) \cap Running = {}
          /\ sweep' = Sweep("pause", Members(f))
      BY <2>1 DEF Pause, PauseFactory, Permitted, WellBehaved
    <3>2. QED
      BY <1>1, <1>5, <1>6, <3>1, SweepStarts
  <2>2. CASE Resume(f)
    <3>1. sweep' = Sweep("resume", Members(f))
      BY <2>2 DEF Resume, ResumeFactory
    <3>2. QED
      BY <1>1, <1>5, <1>6, <3>1, SweepStarts
  <2>3. CASE Delete(f)
    <3>1. /\ Members(f) \cap Running = {}
          /\ sweep' = Sweep("delete", Members(f))
      BY <2>3 DEF Delete, DeleteFactory, Permitted, WellBehaved
    <3>2. QED
      BY <1>1, <1>5, <1>6, <3>1, SweepStarts
  <2>4. QED
    BY <2>1, <2>2, <2>3
<1>8. QED
  BY <1>3, <1>5, <1>7 DEF IInv

LEMMA RegisterInv ==
  ASSUME IInv, Register
  PROVE  IInv'
<1>0. TypeOK /\ FactoryTypeOK /\ QueueInv /\ StackInv
  BY DEF IInv, TypeOK
<1>1. PICK f \in Factory, l \in Listener, r \in Repeats : AddListener(f, l, r, Append(queue, l))
  BY DEF Register
<1>2. /\ r \in Int /\ Append(queue, l) \in Seq(Listener)
      /\ sweep.todo = {} /\ sweep' = sweep /\ Halt /\ (stack # <<>> => Top.called)
      /\ repeat' = [repeat EXCEPT ![l] = r]
  <2>1. queue \in Seq(Listener)
    BY <1>0 DEF FactoryTypeOK
  <2>2. Append(queue, l) \in Seq(Listener)
    BY <2>1, AppendProperties
  <2>3. QED
    BY <1>1, <2>2, ListAssumption DEF Register, Permitted, AddListener
<1>3. FactoryTypeOK'
  BY <1>0, <1>1, <1>2, AddListenerType
<1>4. /\ QueueInv' /\ SameOrder(queue, queue')
      /\ ToSet(queue) \subseteq ToSet(queue') /\ l \notin ToSet(queue)
  BY <1>0, <1>1, <1>2, AddListenerInv
<1>5. \A k \in ToSet(queue) : repeat'[k] = repeat[k]
  BY <1>0, <1>2, <1>4 DEF FactoryTypeOK
<1>6. Running \subseteq ToSet(queue) /\ Outer \subseteq ToSet(queue)
  <2>1. Running \subseteq ToSet(queue)
    BY <1>0 DEF Running, StackInv, WalkInv
  <2>2. Outer \subseteq ToSet(queue)
    BY <1>2, AllRunning DEF Outer
  <2>3. QED
    BY <2>1, <2>2
<1>7. TypeOK' /\ StackInv'
  BY <1>2, <1>3, <1>4, <1>5, <1>6, HaltStep
<1>8. SweepOK'
  BY <1>2, NoLoop
<1>9. QED
  BY <1>4, <1>7, <1>8 DEF IInv

\* Listeners are destroyed, one or all of a factory.
LEMMA DestroyInv ==
  ASSUME WellBehaved, IInv,
         \/ \E f \in Factory : Clear(f)
         \/ \E l \in Listener : Destroy(l)
  PROVE  IInv'
<1>0. TypeOK /\ FactoryTypeOK /\ QueueInv /\ StackInv
  BY DEF IInv, TypeOK
<1>1. Running \subseteq ToSet(queue)
  BY <1>0 DEF Running, StackInv, WalkInv
<1>2. ASSUME NEW f \in Factory, Clear(f)
      PROVE  IInv'
  <2>1. /\ \A l \in Members(f) : paused[l] = 0
        /\ Members(f) \cap Outer = {}
        /\ sweep.todo = {} /\ sweep' = sweep /\ Halt /\ (stack # <<>> => Top.called)
    BY <1>2 DEF Clear, ClearFactory, Permitted, WellBehaved
  <2>2. /\ owner' = [l \in Listener |-> IF owner[l] = f THEN NoFactory ELSE owner[l]]
        /\ repeat' = [l \in Listener |-> IF owner[l] = f THEN 0 ELSE repeat[l]]
        /\ UNCHANGED <<life, paused, registered, queue>>
    BY <1>2 DEF Clear, ClearFactory
  <2>3. FactoryTypeOK'
    BY <1>0, <1>2, FactoryOpType DEF Clear
  <2>4. Live' = Live /\ SameOrder(queue, queue')
    BY <2>2 DEF Live, SameOrder
  <2>5. NoOrphanedListener'
    BY <1>0, <2>1, <2>2, <2>4 DEF QueueInv, NoOrphanedListener, ListedOnceUnlessPaused, Live, Members
  <2>6. QueueInv'
    BY <1>0, <2>2, <2>4, <2>5 DEF QueueInv, ListedOnceUnlessPaused
  <2>7. \A l \in Outer : repeat'[l] = repeat[l]
    <3>1. Outer \subseteq ToSet(queue)
      BY <2>1, AllRunning DEF Outer
    <3>2. ToSet(queue) \subseteq Listener
      BY <1>0 DEF QueueInv, Live
    <3>3. QED
      BY <2>1, <2>2, <3>1, <3>2 DEF Members
  <2>8. \A l \in ToSet(queue) : repeat[l] = 0 => repeat'[l] = 0
    <3>1. ToSet(queue) \subseteq Listener
      BY <1>0 DEF QueueInv, Live
    <3>2. QED
      BY <2>2, <3>1
  <2>9. TypeOK' /\ StackInv'
    BY <1>1, <2>1, <2>2, <2>3, <2>4, <2>7, <2>8, HaltStep
  <2>10. SweepOK'
    BY <2>1, NoLoop
  <2>11. QED
    BY <2>6, <2>9, <2>10 DEF IInv
<1>3. ASSUME NEW l \in Listener, Destroy(l)
      PROVE  IInv'
  <2>1. /\ l \notin Outer
        /\ sweep.todo = {} /\ sweep' = sweep /\ Halt /\ (stack # <<>> => Top.called)
        /\ repeat' = [repeat EXCEPT ![l] = 0] /\ DestroyListener(l)
        /\ UNCHANGED <<life, owner, paused, registered, queue>>
    BY <1>3 DEF Destroy, DestroyListener, Permitted, WellBehaved
  <2>2. FactoryTypeOK'
    BY <1>0, <2>1, DestroyListenerType
  <2>3. QueueInv' /\ SameOrder(queue, queue')
    BY <1>0, <2>1, ListUntouched
  <2>4. /\ \A k \in Outer : repeat'[k] = repeat[k]
        /\ \A k \in ToSet(queue) : repeat[k] = 0 => repeat'[k] = 0
    BY <1>0, <2>1 DEF FactoryTypeOK
  <2>5. TypeOK' /\ StackInv'
    BY <1>1, <2>1, <2>2, <2>3, <2>4, HaltStep
  <2>6. SweepOK'
    BY <2>1, NoLoop
  <2>7. QED
    BY <2>3, <2>5, <2>6 DEF IInv
<1>4. QED
  BY <1>2, <1>3

\* One round of a loop.
LEMMA SweepStepInv ==
  ASSUME IInv, SweepStep
  PROVE  IInv'
<1>0. TypeOK /\ FactoryTypeOK /\ QueueInv /\ SweepOK /\ StackInv
  BY DEF IInv, TypeOK
<1>1. PICK l \in Listener : SweepListener(l, Append(queue, l))
  BY DEF SweepStep
<1>2. /\ l \in sweep.todo /\ l \in Live /\ owner[l] # NoFactory
      /\ Halt /\ (stack # <<>> => Top.called)
  BY <1>0, <1>1 DEF SweepStep, SweepListener, SweepOK
<1>3. sweep'.todo = sweep.todo \ {l} /\ (sweep'.todo # {} => sweep'.op = sweep.op)
  BY <1>1 DEF SweepListener, Sweep, NoSweep
<1>4. \A k \in sweep'.todo : k \in sweep.todo /\ k # l /\ k \in Live /\ k \in Listener
  BY <1>0, <1>3 DEF SweepOK, Live
<1>5. FactoryTypeOK'
  <2>1. queue \in Seq(Listener)
    BY <1>0 DEF FactoryTypeOK
  <2>2. Append(queue, l) \in Seq(Listener)
    BY <2>1, AppendProperties
  <2>3. QED
    BY <1>0, <1>1, <2>2, SweepListenerType
<1>6. Running \subseteq ToSet(queue) /\ Outer \subseteq Running
  <2>1. Running \subseteq ToSet(queue)
    BY <1>0 DEF Running, StackInv, WalkInv
  <2>2. Outer \subseteq Running
    BY <1>2, AllRunning DEF Outer
  <2>3. QED
    BY <2>1, <2>2
<1>7. CASE sweep.op = "pause" /\ PauseListener(l)
  <2>1. l \notin Running /\ paused[l] < PauseMod - 1
    BY <1>0, <1>2, <1>7 DEF SweepOK
  <2>2. QueueInv' /\ SameOrder(queue, queue') /\ ToSet(queue') = ToSet(queue) \ {l}
    BY <1>0, <1>2, <1>7, <2>1, PauseListenerInv
  <2>3. repeat' = repeat
    BY <1>7 DEF PauseListener
  <2>4. /\ TypeOK' /\ StackInv' /\ Running' = Running
        /\ stack' # <<>> => Top'.called
    BY <1>2, <1>5, <1>6, <2>1, <2>2, <2>3, HaltStep
  <2>5. \A k \in sweep'.todo : paused'[k] = paused[k]
    BY <1>0, <1>4, <1>7 DEF PauseListener, FactoryTypeOK
  <2>6. Live' = Live /\ owner' = owner
    BY <1>7 DEF PauseListener, Live
  <2>7. SweepOK'
    BY <1>0, <1>3, <1>4, <1>7, <2>4, <2>5, <2>6 DEF SweepOK
  <2>8. QED
    BY <2>2, <2>4, <2>7 DEF IInv
<1>8. CASE sweep.op = "resume" /\ ResumeListener(l, Append(queue, l))
  <2>1. QueueInv' /\ SameOrder(queue, queue') /\ ToSet(queue) \subseteq ToSet(queue')
    BY <1>0, <1>2, <1>8, ResumeListenerInv
  <2>2. repeat' = repeat
    BY <1>8 DEF ResumeListener
  <2>3. /\ TypeOK' /\ StackInv' /\ Running' = Running
        /\ stack' # <<>> => Top'.called
    BY <1>2, <1>5, <1>6, <2>1, <2>2, HaltStep
  <2>4. Live' = Live /\ owner' = owner
    BY <1>8 DEF ResumeListener, Live
  <2>5. SweepOK'
    BY <1>0, <1>3, <1>4, <1>8, <2>3, <2>4 DEF SweepOK
  <2>6. QED
    BY <2>1, <2>3, <2>5 DEF IInv
<1>9. CASE sweep.op = "delete" /\ DeleteListener(l, queue)
  <2>1. l \notin Running
    BY <1>0, <1>2, <1>9 DEF SweepOK
  <2>2. QueueInv' /\ SameOrder(queue, queue') /\ ToSet(queue') = ToSet(queue) \ {l}
    <3>1. queue \in {queue, RemoveFirst(queue, l)}
      OBVIOUS
    <3>2. QED
      BY <1>0, <1>2, <1>9, <3>1, DeleteListenerInv
  <2>3. /\ \A k \in Outer : repeat'[k] = repeat[k]
        /\ \A k \in ToSet(queue) : repeat[k] = 0 => repeat'[k] = 0
    BY <1>0, <1>6, <1>9, <2>1 DEF DeleteListener, FactoryTypeOK
  <2>4. /\ TypeOK' /\ StackInv' /\ Running' = Running
        /\ stack' # <<>> => Top'.called
    BY <1>2, <1>5, <1>6, <2>1, <2>2, <2>3, HaltStep
  <2>5. Live' = Live \ {l} /\ owner' = [owner EXCEPT ![l] = NoFactory]
    BY <1>0, <1>9 DEF DeleteListener, Live, FactoryTypeOK
  <2>6. \A k \in sweep'.todo : owner'[k] = owner[k]
    BY <1>0, <1>4, <2>5 DEF FactoryTypeOK
  <2>7. SweepOK'
    BY <1>0, <1>3, <1>4, <1>9, <2>4, <2>5, <2>6 DEF SweepOK
  <2>8. QED
    BY <2>2, <2>4, <2>7 DEF IInv
<1>10. QED
  BY <1>1, <1>7, <1>8, <1>9 DEF SweepListener

-----------------------------------------------------------------------------
(***************************************************************************)
(* The steps of walks.                                                     *)
(***************************************************************************)

\* A walk begins.
LEMMA RaiseInv ==
  ASSUME WellBehaved, IInv, NEW e \in Event, Raise(e)
  PROVE  IInv'
<1>0. TypeOK /\ FactoryTypeOK /\ QueueInv /\ SweepOK /\ StackInv
  BY DEF IInv, TypeOK
<1> DEFINE w == [event   |-> e,
                 at      |-> IF queue = <<>> THEN 0 ELSE Head(queue),
                 called  |-> FALSE,
                 erased  |-> FALSE,
                 execute |-> {l \in ToSet(queue) : e \in Matching[l] /\ repeat[l] # 0},
                 delete  |-> {l \in ToSet(queue) : repeat[l] = 0}]
<1>1. /\ SparesRunning(e) /\ sweep.todo = {} /\ (stack # <<>> => Top.called)
      /\ stack' = Append(stack, w)
      /\ UNCHANGED <<life, owner, repeat, paused, registered, fpaused, queue, sweep>>
  BY DEF Raise, Permitted, WellBehaved, factoryVars
<1>2. queue \in Seq(Listener) /\ ToSet(queue) \subseteq Listener
  <2>1. queue \in Seq(Listener)
    BY <1>0 DEF FactoryTypeOK
  <2>2. \A i \in DOMAIN queue : queue[i] \in Listener
    BY <2>1, LenProperties
  <2>3. QED
    BY <2>1, <2>2 DEF ToSet
<1>3. queue # <<>> => Head(queue) \in ToSet(queue)
                       /\ \A l \in ToSet(queue) : NotAfter(queue, Head(queue), l)
  <2>1. SUFFICES ASSUME queue # <<>>
                 PROVE  /\ Head(queue) \in ToSet(queue)
                        /\ \A l \in ToSet(queue) : NotAfter(queue, Head(queue), l)
    OBVIOUS
  <2>2. 1 \in DOMAIN queue /\ queue[1] \in ToSet(queue)
    <3>1. Len(queue) \in Nat \ {0} /\ DOMAIN queue = 1 .. Len(queue)
      BY <1>2, <2>1, LenProperties, EmptySeq
    <3>2. QED
      BY <3>1 DEF ToSet
  <2>3. QED
    BY <1>2, <2>1, <2>2, HeadNotAfter
<1>4. queue = <<>> => ToSet(queue) = {}
  BY DEF ToSet
<1>5. w \in Walk
  BY <1>2, <1>3 DEF Walk
<1>6. WalkInv(w, queue, repeat)
  <2>1. \A l \in w.execute \cup w.delete : w.at # 0 /\ l \in ToSet(queue) /\ NotAfter(queue, w.at, l)
    <3>1. SUFFICES ASSUME NEW l \in w.execute \cup w.delete
                   PROVE  w.at # 0 /\ l \in ToSet(queue) /\ NotAfter(queue, w.at, l)
      OBVIOUS
    <3>2. l \in ToSet(queue) /\ queue # <<>>
      BY <1>4
    <3>3. w.at = Head(queue) /\ Head(queue) # 0
      BY <1>2, <1>3, <3>2 DEF Listener
    <3>4. QED
      BY <1>3, <3>2, <3>3
  <2>2. w.at # 0 => w.at \in ToSet(queue)
    BY <1>3
  <2>3. QED
    BY <2>1, <2>2 DEF WalkInv
<1> HIDE DEF w
<1>7. w.event = e
  BY DEF w
<1> DEFINE n == Len(stack)
<1>8. /\ stack' \in Seq(Walk) /\ n \in Nat /\ DOMAIN stack = 1 .. n /\ DOMAIN stack' = 1 .. n + 1
      /\ \A i \in 1 .. n : stack'[i] = stack[i]
      /\ stack'[n + 1] = w
  <2>1. stack \in Seq(Walk)
    BY <1>0 DEF TypeOK
  <2>2. /\ stack' \in Seq(Walk) /\ Len(stack') = Len(stack) + 1
        /\ \A i \in 1 .. Len(stack) : stack'[i] = stack[i]
        /\ stack'[Len(stack) + 1] = w
    BY <1>1, <1>5, <2>1, AppendProperties
  <2>3. QED
    BY <2>1, <2>2, LenProperties
<1> HIDE DEF n
<1>9. \A i \in 1 .. n + 1 : i \in 1 .. n \/ i = n + 1
  BY <1>8
<1>10. TypeOK'
  BY <1>0, <1>1, <1>8 DEF TypeOK, FactoryTypeOK
<1>11. QueueInv'
  BY <1>0, <1>1, ListUntouched
<1>12. SweepOK'
  BY <1>1, NoLoop
<1>13. \A i \in DOMAIN stack' : WalkInv(stack'[i], queue', repeat')
  BY <1>0, <1>1, <1>6, <1>8, <1>9 DEF StackInv
<1>14. NestedInv'
  <2>1. SUFFICES ASSUME NEW i \in 1 .. n + 1, NEW j \in 1 .. n + 1, i < j
                 PROVE  /\ stack'[i].called
                        /\ repeat'[stack'[i].at] # 0
                        /\ stack'[j].event \in Matching[stack'[i].at] => repeat'[stack'[i].at] < 0
    BY <1>8 DEF NestedInv
  <2>2. i \in 1 .. n /\ stack'[i] = stack[i] /\ i \in DOMAIN stack
    BY <1>8, <2>1
  <2>3. CASE j = n + 1
    <3>1. stack[i].called /\ stack[i].at \in Running
      BY <1>1, <2>2, AllRunning
    <3>2. /\ repeat[stack[i].at] # 0
          /\ e \in Matching[stack[i].at] => repeat[stack[i].at] < 0
      BY <1>1, <3>1 DEF SparesRunning
    <3>3. QED
      BY <1>1, <1>7, <1>8, <2>2, <2>3, <3>1, <3>2
  <2>4. CASE j # n + 1
    <3>1. j \in 1 .. n /\ stack'[j] = stack[j] /\ j \in DOMAIN stack
      BY <1>8, <1>9, <2>4
    <3>2. QED
      BY <1>0, <1>1, <2>1, <2>2, <3>1 DEF StackInv, NestedInv
  <2>5. QED
    BY <2>3, <2>4
<1>15. QED
  BY <1>10, <1>11, <1>12, <1>13, <1>14 DEF IInv, StackInv

\* A walk ends, and the one below it is executing a callback.
LEMMA EndRaiseInv ==
  ASSUME IInv, EndRaise
  PROVE  IInv'
<1>0. TypeOK /\ QueueInv /\ SweepOK /\ StackInv
  BY DEF IInv
<1>1. /\ stack # <<>> /\ ~Top.called /\ stack' = Front(stack)
      /\ UNCHANGED <<life, owner, repeat, paused, registered, fpaused, queue, sweep>>
  BY DEF EndRaise, At, factoryVars
<1> DEFINE n == Len(stack)
<1>2. n \in Nat \ {0} /\ DOMAIN stack = 1 .. n /\ \A i \in 1 .. n : stack[i] \in Walk
  <2>1. stack \in Seq(Walk)
    BY <1>0 DEF TypeOK
  <2>2. QED
    BY <1>1, <2>1, LenProperties, EmptySeq
<1>3. stack' = [i \in 1 .. n - 1 |-> stack[i]]
  BY <1>1, <1>2 DEF Front
<1> HIDE DEF n
<1>4. n - 1 \in Nat /\ 1 .. n - 1 \subseteq 1 .. n
  BY <1>2
<1>5. /\ stack' \in Seq(Walk) /\ DOMAIN stack' = 1 .. n - 1
      /\ \A i \in 1 .. n - 1 : stack'[i] = stack[i] /\ i \in DOMAIN stack
  <2>1. stack' \in [1 .. n - 1 -> Walk]
    BY <1>2, <1>3, <1>4
  <2>2. QED
    BY <1>2, <1>3, <1>4, <2>1, SequenceOfWalks
<1>6. TypeOK'
  BY <1>0, <1>1, <1>5 DEF TypeOK, FactoryTypeOK
<1>7. QueueInv'
  BY <1>0, <1>1, ListUntouched
<1>8. StackInv'
  BY <1>0, <1>1, <1>5 DEF StackInv, NestedInv
<1>9. SweepOK'
  BY <1>0, <1>1, NoLoop DEF SweepOK
<1>10. QED
  BY <1>6, <1>7, <1>8, <1>9 DEF IInv

\* The innermost walk has come to listener l, and leaves it as w.
LEMMA AdvanceInv ==
  ASSUME IInv, stack # <<>>, NEW l \in ToSet(queue), Top.at = l,
         NEW w \in Walk, ~w.erased, ~w.called, w.at = Successor(queue, l), w.event = Top.event,
         w.execute \subseteq Top.execute \ {l}, w.delete \subseteq Top.delete \ {l},
         SameOrder(queue, queue'), ToSet(queue) \ {l} \subseteq ToSet(queue'),
         \A k \in ToSet(queue) \ {l} : repeat'[k] = repeat[k]
  PROVE  WalkInv(w, queue', repeat')
<1>1. WalkInv(Top, queue, repeat)
  BY StackFacts DEF IInv, StackInv
<1>2. queue \in Seq(Listener) /\ Distinct(queue)
  BY QueueFacts DEF IInv, TypeOK
<1>3. /\ w.at # 0 => w.at \in ToSet(queue) \ {l}
      /\ \A b \in ToSet(queue) \ {l} : NotAfter(queue, l, b) => w.at # 0 /\ NotAfter(queue, w.at, b)
  BY <1>2, SuccessorFacts
<1>4. \A k \in w.execute \cup w.delete :
        k \in ToSet(queue) \ {l} /\ k \in ToSet(queue') /\ w.at # 0 /\ NotAfter(queue, w.at, k)
  BY <1>1, <1>3 DEF WalkInv
<1>5. \A k \in w.execute \cup w.delete : NotAfter(queue', w.at, k)
  BY <1>3, <1>4 DEF SameOrder
<1>6. /\ \A k \in w.execute : w.event \in Matching[k] /\ repeat'[k] # 0
      /\ \A k \in w.delete : repeat'[k] = 0
  BY <1>1, <1>4 DEF WalkInv
<1>7. QED
  BY <1>3, <1>4, <1>5, <1>6 DEF WalkInv

\* What a walk knows of the listener it has come to.
LEMMA AtFacts ==
  ASSUME IInv, stack # <<>>, NEW l \in Listener, Top.at = l
  PROVE  /\ l \in ToSet(queue) /\ l \in Live /\ Top \in Walk /\ WalkInv(Top, queue, repeat)
         /\ Top.event \in Event /\ Matching[l] \in SUBSET Event /\ repeat[l] \in Int
         /\ Successor(queue, l) \in Listener \cup {0}
         /\ \A i \in 1 .. Len(stack) - 1 : /\ i \in DOMAIN stack /\ stack[i].called
                                           /\ stack[i].at # 0
                                           /\ stack[i].at \in ToSet(queue)
                                           /\ stack[i].at \notin Unconnected
                                           /\ repeat[stack[i].at] # 0
                                           /\ Top.event \in Matching[stack[i].at]
                                                => repeat[stack[i].at] < 0
<1>1. Top \in Walk /\ WalkInv(Top, queue, repeat) /\ l # 0
  BY StackFacts DEF IInv, StackInv, Listener
<1>2. l \in ToSet(queue) /\ l \in Live
  BY <1>1 DEF WalkInv, IInv, QueueInv
<1>3. Top.event \in Event /\ Matching[l] \in SUBSET Event /\ repeat[l] \in Int
  BY <1>1, ListAssumption DEF Walk, IInv, TypeOK, FactoryTypeOK
<1>4. Successor(queue, l) \in Listener \cup {0}
  <2>1. queue \in Seq(Listener) /\ Distinct(queue)
    BY QueueFacts DEF IInv, TypeOK
  <2>2. Successor(queue, l) # 0 => Successor(queue, l) \in ToSet(queue)
    BY <1>2, <2>1, SuccessorFacts
  <2>3. QED
    BY <2>2 DEF IInv, QueueInv, Live
<1>5. ASSUME NEW i \in 1 .. Len(stack) - 1
      PROVE  /\ i \in DOMAIN stack /\ stack[i].called /\ stack[i].at # 0
             /\ stack[i].at \in ToSet(queue) /\ stack[i].at \notin Unconnected
             /\ repeat[stack[i].at] # 0
             /\ Top.event \in Matching[stack[i].at] => repeat[stack[i].at] < 0
  <2>1. /\ Len(stack) \in Nat /\ DOMAIN stack = 1 .. Len(stack)
        /\ Len(stack) \in DOMAIN stack /\ Top = stack[Len(stack)]
    BY StackFacts DEF IInv
  <2>2. i \in DOMAIN stack /\ i < Len(stack)
    BY <1>5, <2>1
  <2>3. /\ stack[i].called /\ repeat[stack[i].at] # 0
        /\ Top.event \in Matching[stack[i].at] => repeat[stack[i].at] < 0
    BY <2>1, <2>2 DEF IInv, StackInv, NestedInv
  <2>4. WalkInv(stack[i], queue, repeat)
    BY <2>2 DEF IInv, StackInv
  <2>5. QED
    BY <2>2, <2>3, <2>4 DEF WalkInv
<1>6. QED
  BY <1>1, <1>2, <1>3, <1>4, <1>5

\* A step of the innermost walk, with no loop under way.
LEMMA ProceedStep ==
  ASSUME IInv, stack # <<>>, NEW w \in Walk, Proceed(w),
         FactoryTypeOK', QueueInv', sweep.todo = {}, sweep' = sweep,
         Spared(1 .. Len(stack) - 1), WalkInv(w, queue', repeat'), w.event = Top.event
  PROVE  IInv'
<1>1. stack' \in Seq(Walk) /\ StackInv'
  BY ProceedInv DEF IInv
<1>2. TypeOK' /\ SweepOK'
  BY <1>1, NoLoop DEF TypeOK
<1>3. QED
  BY <1>1, <1>2 DEF IInv

LEMMA WalkStepInv ==
  ASSUME IInv, WalkStep
  PROVE  IInv'
<1>0. TypeOK /\ FactoryTypeOK /\ QueueInv /\ SweepOK /\ StackInv
  BY DEF IInv, TypeOK
<1>1. ASSUME NEW l \in Listener, DeleteDestroyed(l)
      PROVE  IInv'
  <2> DEFINE w == [Top EXCEPT !.at = Successor(queue, l), !.delete = @ \ {l}]
  <2>1. /\ stack # <<>> /\ ~Top.called /\ Top.at = l /\ repeat[l] = 0 /\ sweep.todo = {}
        /\ DeleteListener(l, RemoveFirst(queue, l))
        /\ UNCHANGED <<fpaused, sweep>> /\ Proceed(w)
    BY <1>0, <1>1 DEF DeleteDestroyed, At, SweepOK
  <2>2. /\ l \in ToSet(queue) /\ l \in Live /\ Top \in Walk /\ WalkInv(Top, queue, repeat)
        /\ Successor(queue, l) \in Listener \cup {0}
        /\ \A i \in 1 .. Len(stack) - 1 : stack[i].at \in ToSet(queue) /\ repeat[stack[i].at] # 0
    BY <2>1, AtFacts
  <2>3. QueueInv' /\ SameOrder(queue, queue') /\ ToSet(queue') = ToSet(queue) \ {l}
    <3>1. RemoveFirst(queue, l) \in {queue, RemoveFirst(queue, l)}
      OBVIOUS
    <3>2. QED
      BY <1>0, <2>1, <2>2, <3>1, DeleteListenerInv
  <2>4. FactoryTypeOK'
    <3>1. RemoveFirst(queue, l) \in Seq(Listener)
      BY <1>0, RemoveFirstType DEF FactoryTypeOK
    <3>2. ListenersTypeOK'
      BY <1>0, <2>1, <3>1, DeleteListenerType
    <3>3. QED
      BY <1>0, <2>1, <3>2 DEF FactoryTypeOK, ListenersTypeOK
  <2>5. /\ \A k \in ToSet(queue) \ {l} : repeat'[k] = repeat[k]
        /\ repeat'[l] = 0
    <3>1. repeat' = [repeat EXCEPT ![l] = 0] /\ ToSet(queue) \subseteq Listener
      BY <1>0, <2>1 DEF DeleteListener, QueueInv, Live
    <3>2. QED
      BY <1>0, <3>1 DEF FactoryTypeOK
  <2>6. /\ w \in Walk /\ ~w.erased /\ ~w.called /\ w.at = Successor(queue, l)
        /\ w.event = Top.event /\ w.execute = Top.execute /\ w.delete = Top.delete \ {l}
    <3>1. /\ w \in Walk /\ w.at = Successor(queue, l) /\ w.erased = Top.erased
          /\ w.called = Top.called
          /\ w.event = Top.event /\ w.execute = Top.execute /\ w.delete = Top.delete \ {l}
      BY <2>2 DEF Walk
    <3>2. QED
      BY <2>1, <2>2, <3>1 DEF WalkInv
  <2> HIDE DEF w
  <2>7. WalkInv(w, queue', repeat')
    <3>1. l \notin Top.execute
      BY <2>1, <2>2 DEF WalkInv
    <3>2. QED
      BY <2>1, <2>2, <2>3, <2>5, <2>6, <3>1, AdvanceInv
  <2>8. Spared(1 .. Len(stack) - 1)
    BY <2>1, <2>2, <2>3, <2>5 DEF Spared
  <2>9. QED
    BY <2>1, <2>3, <2>4, <2>6, <2>7, <2>8, ProceedStep
<1>2. ASSUME NEW l \in Listener, Skip(l)
      PROVE  IInv'
  <2> DEFINE w == [Top EXCEPT !.at = Successor(queue, l)]
  <2>1. /\ stack # <<>> /\ ~Top.called /\ Top.at = l /\ repeat[l] # 0 /\ sweep.todo = {}
        /\ Top.event \notin Matching[l]
        /\ UNCHANGED <<life, owner, repeat, paused, registered, fpaused, queue, sweep>>
        /\ Proceed(w)
    BY <1>0, <1>2 DEF Skip, At, SweepOK, factoryVars
  <2>2. /\ l \in ToSet(queue) /\ Top \in Walk /\ WalkInv(Top, queue, repeat)
        /\ Successor(queue, l) \in Listener \cup {0}
        /\ \A i \in 1 .. Len(stack) - 1 : stack[i].at \in ToSet(queue)
    BY <2>1, AtFacts
  <2>3. QueueInv' /\ SameOrder(queue, queue') /\ FactoryTypeOK'
    BY <1>0, <2>1, ListUntouched DEF FactoryTypeOK
  <2>4. /\ w \in Walk /\ ~w.erased /\ ~w.called /\ w.at = Successor(queue, l)
        /\ w.event = Top.event /\ w.execute = Top.execute /\ w.delete = Top.delete
    <3>1. /\ w \in Walk /\ w.at = Successor(queue, l) /\ w.erased = Top.erased
          /\ w.called = Top.called
          /\ w.event = Top.event /\ w.execute = Top.execute /\ w.delete = Top.delete
      BY <2>2 DEF Walk
    <3>2. QED
      BY <2>1, <2>2, <3>1 DEF WalkInv
  <2> HIDE DEF w
  <2>5. WalkInv(w, queue', repeat')
    <3>1. l \notin Top.execute /\ l \notin Top.delete
      BY <2>1, <2>2 DEF WalkInv
    <3>2. QED
      BY <2>1, <2>2, <2>3, <2>4, <3>1, AdvanceInv
  <2>6. Spared(1 .. Len(stack) - 1)
    BY <2>1, <2>2, <2>3 DEF Spared
  <2>7. QED
    BY <2>1, <2>3, <2>4, <2>5, <2>6, ProceedStep
<1>3. ASSUME NEW l \in Listener, Execute(l)
      PROVE  IInv'
  <2> DEFINE w == [Top EXCEPT !.called = TRUE, !.execute = @ \ {l}]
  <2>1. /\ stack # <<>> /\ Top.at = l /\ repeat[l] # 0 /\ sweep.todo = {}
        /\ Top.event \in Matching[l] /\ l \notin Unconnected
        /\ repeat' = [repeat EXCEPT ![l] = IF repeat[l] > 0 THEN repeat[l] - 1 ELSE repeat[l]]
        /\ UNCHANGED <<life, owner, paused, registered, fpaused, queue, sweep>>
        /\ Proceed(w)
    BY <1>0, <1>3 DEF Execute, At, SweepOK
  <2>2. /\ l \in ToSet(queue) /\ Top \in Walk /\ WalkInv(Top, queue, repeat) /\ repeat[l] \in Int
        /\ \A i \in 1 .. Len(stack) - 1 : /\ stack[i].at \in ToSet(queue)
                                          /\ Top.event \in Matching[stack[i].at]
                                               => repeat[stack[i].at] < 0
    BY <2>1, AtFacts
  <2>3. QueueInv' /\ SameOrder(queue, queue')
    BY <1>0, <2>1, ListUntouched
  <2>4. FactoryTypeOK'
    BY <1>0, <2>1, <2>2 DEF FactoryTypeOK
  <2>5. /\ \A k \in ToSet(queue) \ {l} : repeat'[k] = repeat[k]
        /\ repeat[l] < 0 => repeat'[l] = repeat[l]
    <3>1. ToSet(queue) \subseteq Listener
      BY <1>0 DEF QueueInv, Live
    <3>2. QED
      BY <1>0, <2>1, <2>2, <3>1 DEF FactoryTypeOK
  <2>6. /\ w \in Walk /\ ~w.erased /\ w.called /\ w.at = l
        /\ w.event = Top.event /\ w.execute = Top.execute \ {l} /\ w.delete = Top.delete
    <3>1. /\ w \in Walk /\ w.at = Top.at /\ w.erased = Top.erased /\ w.called = TRUE
          /\ w.event = Top.event /\ w.execute = Top.execute \ {l} /\ w.delete = Top.delete
      BY <2>2 DEF Walk
    <3>2. QED
      BY <2>1, <2>2, <3>1 DEF WalkInv
  <2> HIDE DEF w
  <2>7. WalkInv(w, queue', repeat')
    <3>1. l \notin Top.delete /\ l # 0 /\ queue' = queue
      BY <2>1, <2>2 DEF WalkInv, Listener
    <3>2. /\ \A k \in w.execute : k \in ToSet(queue) \ {l}
          /\ \A k \in w.delete : k \in ToSet(queue) \ {l}
      BY <2>2, <2>6, <3>1 DEF WalkInv
    <3>3. QED
      BY <2>1, <2>2, <2>5, <2>6, <3>1, <3>2 DEF WalkInv
  <2>8. Spared(1 .. Len(stack) - 1)
    <3>1. \A i \in 1 .. Len(stack) - 1 : repeat'[stack[i].at] = repeat[stack[i].at]
      BY <2>1, <2>2, <2>5
    <3>2. \A k \in ToSet(queue) : repeat[k] = 0 => repeat'[k] = 0
      BY <2>1, <2>5
    <3>3. QED
      BY <2>1, <2>2, <2>3, <3>1, <3>2 DEF Spared
  <2>9. QED
    BY <2>1, <2>3, <2>4, <2>6, <2>7, <2>8, ProceedStep
<1>4. ASSUME NEW l \in Listener, DestroyUnconnected(l)
      PROVE  IInv'
  <2> DEFINE w == [Top EXCEPT !.at = Successor(queue, l), !.execute = @ \ {l}]
  <2>1. /\ stack # <<>> /\ ~Top.called /\ Top.at = l /\ repeat[l] # 0 /\ sweep.todo = {}
        /\ l \in Unconnected
        /\ repeat' = [repeat EXCEPT ![l] = 0]
        /\ UNCHANGED <<life, owner, paused, registered, fpaused, queue, sweep>>
        /\ Proceed(w)
    BY <1>0, <1>4 DEF DestroyUnconnected, At, SweepOK
  <2>2. /\ l \in ToSet(queue) /\ Top \in Walk /\ WalkInv(Top, queue, repeat)
        /\ Successor(queue, l) \in Listener \cup {0}
        /\ \A i \in 1 .. Len(stack) - 1 : stack[i].at \in ToSet(queue) /\ stack[i].at \notin Unconnected
    BY <2>1, AtFacts
  <2>3. QueueInv' /\ SameOrder(queue, queue')
    BY <1>0, <2>1, ListUntouched
  <2>4. FactoryTypeOK'
    BY <1>0, <2>1 DEF FactoryTypeOK
  <2>5. /\ \A k \in ToSet(queue) \ {l} : repeat'[k] = repeat[k]
        /\ repeat'[l] = 0
    <3>1. ToSet(queue) \subseteq Listener
      BY <1>0 DEF QueueInv, Live
    <3>2. QED
      BY <1>0, <2>1, <3>1 DEF FactoryTypeOK
  <2>6. /\ w \in Walk /\ ~w.erased /\ ~w.called /\ w.at = Successor(queue, l)
        /\ w.event = Top.event /\ w.execute = Top.execute \ {l} /\ w.delete = Top.delete
    <3>1. /\ w \in Walk /\ w.at = Successor(queue, l) /\ w.erased = Top.erased
          /\ w.called = Top.called
          /\ w.event = Top.event /\ w.execute = Top.execute \ {l} /\ w.delete = Top.delete
      BY <2>2 DEF Walk
    <3>2. QED
      BY <2>1, <2>2, <3>1 DEF WalkInv
  <2> HIDE DEF w
  <2>7. WalkInv(w, queue', repeat')
    <3>1. l \notin Top.delete
      BY <2>1, <2>2 DEF WalkInv
    <3>2. QED
      BY <2>1, <2>2, <2>3, <2>5, <2>6, <3>1, AdvanceInv
  <2>8. Spared(1 .. Len(stack) - 1)
    BY <2>1, <2>2, <2>3, <2>5 DEF Spared
  <2>9. QED
    BY <2>1, <2>3, <2>4, <2>6, <2>7, <2>8, ProceedStep
<1>5. CASE Return
  <2> DEFINE l == Top.at
             w == [Top EXCEPT !.called = FALSE, !.at = Successor(queue, Top.at)]
  <2>1. /\ stack # <<>> /\ Top.called /\ sweep.todo = {}
        /\ UNCHANGED <<life, owner, repeat, paused, registered, fpaused, queue, sweep>>
        /\ Proceed(w)
    BY <1>5 DEF Return, factoryVars
  <2>2. l \in Listener
    <3>1. Top \in Walk /\ WalkInv(Top, queue, repeat)
      BY <1>0, <2>1, StackFacts DEF StackInv
    <3>2. QED
      BY <2>1, <3>1 DEF WalkInv, Walk
  <2>3. /\ l \in ToSet(queue) /\ Top \in Walk /\ WalkInv(Top, queue, repeat)
        /\ Successor(queue, l) \in Listener \cup {0}
        /\ \A i \in 1 .. Len(stack) - 1 : stack[i].at \in ToSet(queue)
    BY <2>1, <2>2, AtFacts
  <2>4. QueueInv' /\ SameOrder(queue, queue') /\ FactoryTypeOK'
    BY <1>0, <2>1, ListUntouched DEF FactoryTypeOK
  <2>5. /\ w \in Walk /\ ~w.erased /\ ~w.called /\ w.at = Successor(queue, l)
        /\ w.event = Top.event /\ w.execute = Top.execute /\ w.delete = Top.delete
    <3>1. /\ w \in Walk /\ w.at = Successor(queue, l) /\ w.erased = Top.erased
          /\ w.called = FALSE
          /\ w.event = Top.event /\ w.execute = Top.execute /\ w.delete = Top.delete
      BY <2>3 DEF Walk
    <3>2. QED
      BY <2>3, <3>1 DEF WalkInv
  <2> HIDE DEF w
  <2>6. WalkInv(w, queue', repeat')
    <3>1. l \notin Top.execute /\ l \notin Top.delete
      BY <2>1, <2>3 DEF WalkInv
    <3>2. QED
      BY <2>1, <2>3, <2>4, <2>5, <3>1, AdvanceInv
  <2>7. Spared(1 .. Len(stack) - 1)
    BY <2>1, <2>3, <2>4 DEF Spared
  <2>8. QED
    BY <2>1, <2>4, <2>5, <2>6, <2>7, ProceedStep
<1>6. CASE EndRaise
  BY <1>6, EndRaiseInv
<1>7. QED
  BY <1>1, <1>2, <1>3, <1>4, <1>5, <1>6 DEF WalkStep

LEMMA StepInv == WellBehaved => (IInv /\ [Next]_vars => IInv')
<1>1. SUFFICES ASSUME WellBehaved, IInv, [Next]_vars
               PROVE  IInv'
  OBVIOUS
<1>2. CASE Script
  BY <1>1, <1>2, RegisterInv, LoopInv, DestroyInv, RaiseInv DEF Script
<1>3. CASE SweepStep
  BY <1>1, <1>3, SweepStepInv
<1>4. CASE WalkStep
  BY <1>1, <1>4, WalkStepInv
<1>5. CASE UNCHANGED vars
  BY <1>1, <1>5 DEF vars, factoryVars, IInv, TypeOK, FactoryTypeOK, QueueInv,
     ListedOnceUnlessPaused, NoOrphanedListener, Live, SweepOK, Running, Top, Last,
     StackInv, NestedInv
<1>6. QED
  BY <1>1, <1>2, <1>3, <1>4, <1>5 DEF Next

-----------------------------------------------------------------------------
(***************************************************************************)
(* What holds of all behaviours with well-behaved scripts.                 *)
(***************************************************************************)

LEMMA Invariant == WellBehaved => (Spec => []IInv)
<1>1. SUFFICES ASSUME WellBehaved
               PROVE  Spec => []IInv
  OBVIOUS
<1>2. Init => IInv
  BY InitInv
<1>3. IInv /\ [Next]_vars => IInv'
  BY <1>1, StepInv
<1>4. QED
  BY <1>2, <1>3, PTL DEF Spec

\* raise_event may keep its iterator in the list while it executes callbacks,
\* however many events these raise themselves: its node is not erased, no
\* listener is freed that a list, a walk or a loop refers to, and the list
\* names everyone it has to exactly once.
THEOREM SoundWalks == WellBehaved => (Spec => []WalksSound)
<1>1. IInv => WalksSound
  <2>1. SUFFICES ASSUME IInv
                 PROVE  WalksSound
    OBVIOUS
  <2>2. NoDanglingListener
    BY <2>1 DEF IInv, QueueInv, SweepOK, StackInv, WalkInv, NoDanglingListener
  <2>3. NoIteratorInvalidated
    BY <2>1 DEF IInv, StackInv, WalkInv, NoIteratorInvalidated
  <2>4. QED
    BY <2>1, <2>2, <2>3 DEF IInv, QueueInv, WalksSound
<1>2. QED
  BY <1>1, Invariant, PTL

\* When raise_event has come to the end of its list it has executed all
\* listeners it had to execute and deleted all that had been destroyed,
\* whoever was added, removed or destroyed by the callbacks on its way.
THEOREM CompleteWalks == WellBehaved => (Spec => []WalkComplete)
<1>1. IInv => WalkComplete
  BY DEF IInv, StackInv, WalkInv, WalkComplete, NobodySkipped, DestroyedIsDeleted
<1>2. QED
  BY <1>1, Invariant, PTL

\* No walk ever counts down the listener whose callback it was raised from:
\* the listener is still there when its callback returns.
THEOREM CallersSurvive ==
  WellBehaved => (Spec => [](\A i \in DOMAIN stack :
                               i < Len(stack) => stack[i].at \in Live /\ repeat[stack[i].at] # 0))
<1>1. IInv => \A i \in DOMAIN stack :
                i < Len(stack) => stack[i].at \in Live /\ repeat[stack[i].at] # 0
  <2>1. SUFFICES ASSUME IInv, NEW i \in DOMAIN stack, i < Len(stack)
                 PROVE  stack[i].at \in Live /\ repeat[stack[i].at] # 0
    OBVIOUS
  <2>2. Len(stack) \in DOMAIN stack
    BY <2>1, StackFacts DEF IInv
  <2>3. stack[i].called /\ repeat[stack[i].at] # 0
    BY <2>1, <2>2 DEF IInv, StackInv, NestedInv
  <2>4. QED
    BY <2>1, <2>3 DEF IInv, StackInv, WalkInv, QueueInv
<1>2. QED
  BY <1>1, Invariant, PTL

=============================================================================

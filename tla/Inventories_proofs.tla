------------------------- MODULE Inventories_proofs -------------------------
(***************************************************************************)
(* Proofs about Inventories, for any slots, items, stack limits,           *)
(* inventories and recipes, if scripts are careful: however items are      *)
(* moved, none is lost, slots and items agree, and inventory::add is       *)
(* honest about what did not fit and returns.                              *)
(*                                                                         *)
(* The items that are stacked in a slot are a chain of pointers; a chain   *)
(* is a function c whose values c[1] to c[n] are the items from the top    *)
(* down. The loops of inventory::add, put_state and combine are folds, of  *)
(* which an invariant of one turn is proved to be one of the whole.        *)
(***************************************************************************)
EXTENDS Inventories, ListLemmas, FiniteSetTheorems

-----------------------------------------------------------------------------
(* Iterating a step. *)

\* g goes from a through n steps of F.
Iteration (g, n, a, F) == g[0] = a /\ \A i \in 1 .. n : g[i] = F[g[i - 1]]

LEMMA IterationGoesOn ==
  ASSUME NEW n \in Nat, NEW A, NEW a \in A, NEW F \in [A -> A]
  PROVE  \E g \in [0 .. n -> A] : Iteration (g, n, a, F)
<1> DEFINE T == {m \in 0 .. n : \E g \in [0 .. m -> A] : g[0] = a /\ \A i \in 1 .. m : g[i] = F[g[i - 1]]}
<1>1. 0 \in T
  <2> DEFINE g == [i \in 0 .. 0 |-> a]
  <2>1. g \in [0 .. 0 -> A] /\ g[0] = a /\ \A i \in 1 .. 0 : g[i] = F[g[i - 1]]
    OBVIOUS
  <2> HIDE DEF g
  <2>2. 0 \in 0 .. n
    OBVIOUS
  <2>3. QED
    BY <2>1, <2>2
<1>2. ASSUME NEW m \in 1 .. n, m - 1 \in T
      PROVE  m \in T
  <2>1. PICK g \in [0 .. m - 1 -> A] : g[0] = a /\ \A i \in 1 .. m - 1 : g[i] = F[g[i - 1]]
    BY <1>2
  <2> DEFINE f == [i \in 0 .. m |-> IF i < m THEN g[i] ELSE F[g[m - 1]]]
  <2>2. g[m - 1] \in A /\ \A i \in 0 .. m - 1 : g[i] \in A /\ i \in 0 .. m
    OBVIOUS
  <2>3. f \in [0 .. m -> A]
    BY <2>2
  <2>4. f[0] = a /\ \A i \in 0 .. m - 1 : f[i] = g[i]
    BY <2>1, <2>2
  <2>5. f[m] = F[g[m - 1]]
    OBVIOUS
  <2> HIDE DEF f
  <2>6. ASSUME NEW i \in 1 .. m
        PROVE  f[i] = F[f[i - 1]]
    <3>1. i - 1 \in 0 .. m - 1 /\ (i # m => i \in 1 .. m - 1 /\ i \in 0 .. m - 1)
      OBVIOUS
    <3>2. CASE i = m
      BY <2>4, <2>5, <3>1, <3>2
    <3>3. CASE i # m
      BY <2>1, <2>4, <3>1, <3>3
    <3>4. QED
      BY <3>2, <3>3
  <2>7. QED
    BY <2>3, <2>4, <2>1, <2>6
<1> HIDE DEF T
<1>3. \A m \in 0 .. n : m \in T
  BY <1>1, <1>2, StepByStep
<1>4. n \in T
  BY <1>3
<1>5. QED
  BY <1>4 DEF T, Iteration

-----------------------------------------------------------------------------
(* Stacks as lists. *)

\* c lists a stack of n items, from the topmost one down.
Chain (h, c, n) ==
  /\ \A i \in 1 .. n : c[i] \in Mutable
  /\ \A i, j \in 1 .. n : c[i] = c[j] => i = j
  /\ \A i \in 1 .. n : h.next[c[i]] = IF i = n THEN None ELSE c[i + 1]

Elements (c, n) == {c[i] : i \in 1 .. n}

Next1 (h, x) == IF x \in Mutable THEN h.next[x] ELSE None

LEMMA BelowIs ==
  ASSUME ItemAssumption, NEW h, h.next \in [Mutable -> Mutable \cup {None}], NEW o
  PROVE  /\ Cardinality (Mutable) \in Nat
         /\ Below (h, o)[0] = o
         /\ \A n \in 1 .. Cardinality (Mutable) : Below (h, o)[n] = Next1 (h, Below (h, o)[n - 1])
<1> DEFINE N == Cardinality (Mutable)
           A == Mutable \cup {None, o}
           F == [x \in A |-> Next1 (h, x)]
<1>1. N \in Nat
  BY FS_CardinalityType DEF ItemAssumption
<1>2. o \in A /\ F \in [A -> A] /\ \A x \in A : F[x] = Next1 (h, x)
  BY DEF Next1
<1> DEFINE Eq(b) == b = [n \in 0 .. N |-> IF n = 0 THEN o
                         ELSE IF b[n - 1] \in Mutable THEN h.next[b[n - 1]] ELSE None]
           b0 == Below (h, o)
<1>3. b0 = CHOOSE b : Eq (b)
  BY DEF Below
<1> HIDE DEF N, A, F
<1>4. PICK g \in [0 .. N -> A] : g[0] = o /\ \A i \in 1 .. N : g[i] = F[g[i - 1]]
  <2>1. o \in A
    BY <1>2
  <2>2. F \in [A -> A]
    BY <1>2
  <2>3. QED
    <3>1. \E g \in [0 .. N -> A] : Iteration (g, N, o, F)
      BY <1>1, <2>1, <2>2, IterationGoesOn
    <3>2. QED
      BY <3>1 DEF Iteration
<1>5. Eq (g)
  <2>1. \A n \in 0 .. N : g[n] = IF n = 0 THEN o
            ELSE IF g[n - 1] \in Mutable THEN h.next[g[n - 1]] ELSE None
    <3>1. \A n \in 1 .. N : n - 1 \in 0 .. N /\ n \in 0 .. N
      BY <1>1
    <3>2. \A n \in 1 .. N : g[n - 1] \in A
      BY <3>1, <1>4
    <3>3. \A n \in 1 .. N : g[n] = Next1 (h, g[n - 1])
      BY <3>2, <1>2, <1>4
    <3>4. \A n \in 0 .. N : n # 0 => n \in 1 .. N
      BY <1>1
    <3>5. QED
      BY <3>3, <3>4, <1>4 DEF Next1
  <2>2. QED
    BY <2>1
<1>6. Eq (b0)
  <2> HIDE DEF Eq
  <2>1. QED
    BY <1>3, <1>5
<1>7. b0[0] = o /\ \A n \in 1 .. N : b0[n] = Next1 (h, b0[n - 1])
  <2>1. b0 = [n \in 0 .. N |-> IF n = 0 THEN o
                         ELSE IF b0[n - 1] \in Mutable THEN h.next[b0[n - 1]] ELSE None]
    BY <1>6
  <2> HIDE DEF b0
  <2>2. 0 \in 0 .. N /\ \A n \in 1 .. N : n \in 0 .. N /\ n # 0
    BY <1>1
  <2>3. \A n \in 0 .. N : b0[n] = IF n = 0 THEN o
                         ELSE IF b0[n - 1] \in Mutable THEN h.next[b0[n - 1]] ELSE None
    BY <2>1
  <2>4. QED
    BY <2>2, <2>3 DEF Next1
<1>8. QED
  BY <1>1, <1>7 DEF N

\* What is below the topmost item of a list is that list.
LEMMA ChainBelow ==
  ASSUME ItemAssumption, NEW h, h.next \in [Mutable -> Mutable \cup {None}],
         NEW n \in Nat \ {0}, NEW c, Chain (h, c, n)
  PROVE  /\ n <= Cardinality (Mutable)
         /\ \A i \in 0 .. Cardinality (Mutable) :
              Below (h, c[1])[i] = IF i < n THEN c[i + 1] ELSE None
<1> DEFINE N == Cardinality (Mutable)
           b == Below (h, c[1])
<1>1. N \in Nat /\ b[0] = c[1] /\ \A i \in 1 .. N : b[i] = Next1 (h, b[i - 1])
  BY BelowIs
<1>2. n <= N
  <2> DEFINE f == [i \in 1 .. n |-> c[i]]
  <2>1. f \in Injection (1 .. n, Mutable)
    BY DEF Chain, Injection, IsInjective
  <2>2. Cardinality (1 .. n) = n
    <3>1. 1 \in Int /\ n \in Int /\ ~ (1 > n) /\ n - 1 + 1 = n
      OBVIOUS
    <3>2. Cardinality (1 .. n) = n - 1 + 1
      BY <3>1, FS_Interval
    <3>3. QED
      BY <3>1, <3>2
  <2>3. QED
    BY <2>1, <2>2, FS_Injection DEF ItemAssumption
<1> HIDE DEF b, N
<1> DEFINE T == {i \in 0 .. N : b[i] = IF i < n THEN c[i + 1] ELSE None}
<1>3. 0 \in T
  BY <1>1
<1>4. ASSUME NEW i \in 1 .. N, i - 1 \in T
      PROVE  i \in T
  <2>1. b[i] = Next1 (h, b[i - 1]) /\ b[i - 1] = IF i - 1 < n THEN c[i] ELSE None
    BY <1>1, <1>4
  <2>2. CASE i <= n
    <3>1. c[i] \in Mutable /\ h.next[c[i]] = IF i = n THEN None ELSE c[i + 1]
      BY <2>2 DEF Chain
    <3>2. QED
      BY <3>1, <2>1, <2>2 DEF Next1
  <2>3. CASE i > n
    BY <2>1, <2>3 DEF Next1, ItemAssumption
  <2>4. QED
    BY <2>2, <2>3
<1> HIDE DEF T
<1>5. \A i \in 0 .. N : i \in T
  BY <1>1, <1>3, <1>4, StepByStep
<1>6. QED
  BY <1>2, <1>5 DEF T, N, b

LEMMA ChainStack ==
  ASSUME ItemAssumption, NEW h, h.next \in [Mutable -> Mutable \cup {None}],
         NEW n \in Nat \ {0}, NEW c, Chain (h, c, n)
  PROVE  /\ Stack (h, c[1]) = Elements (c, n)
         /\ Cardinality (Stack (h, c[1])) = n
         /\ Bottom (h, c[1]) = c[n]
         /\ \A i \in 1 .. n : Below (h, c[1])[i - 1] = c[i]
<1> DEFINE N == Cardinality (Mutable)
           b == Below (h, c[1])
<1>1. N \in Nat /\ n <= N /\ \A i \in 0 .. N : b[i] = IF i < n THEN c[i + 1] ELSE None
  BY ChainBelow, BelowIs
<1>2. (\A i \in 1 .. n : c[i] \in Mutable) /\ None \notin Mutable
  BY DEF Chain, ItemAssumption
<1>3. Stack (h, c[1]) = {b[i] : i \in 0 .. N} \ {None}
  BY DEF Stack
<1> HIDE DEF b, N
<1>4. \A i \in 1 .. n : b[i - 1] = c[i] /\ i - 1 \in 0 .. N /\ c[i] # None
  BY <1>1, <1>2
<1>5. {b[i] : i \in 0 .. N} \ {None} = Elements (c, n)
  <2>1. \A i \in 0 .. N : b[i] # None => b[i] = c[i + 1] /\ i + 1 \in 1 .. n
    BY <1>1
  <2>2. QED
    BY <2>1, <1>4 DEF Elements
<1>6. Cardinality (Elements (c, n)) = n
  <2> DEFINE f == [i \in 1 .. n |-> c[i]]
  <2>1. f \in Bijection (1 .. n, Elements (c, n))
    BY <1>2 DEF Chain, Elements, Bijection, Injection, Surjection, IsInjective
  <2>2. ExistsBijection (1 .. n, Elements (c, n))
    BY <2>1 DEF ExistsBijection
  <2>3. IsFiniteSet (1 .. n) /\ Cardinality (1 .. n) = n
    BY FS_Interval
  <2>4. QED
    BY <2>2, <2>3, FS_Bijection
<1>7. Bottom (h, c[1]) = c[n]
  <2>1. Bottom (h, c[1]) = CHOOSE p \in Elements (c, n) : h.next[p] = None
    BY <1>3, <1>5 DEF Bottom
  <2>2. c[n] \in Elements (c, n) /\ h.next[c[n]] = None
    BY DEF Chain, Elements
  <2>3. \A p \in Elements (c, n) : h.next[p] = None => p = c[n]
    <3>1. \A i \in 1 .. n : i # n => c[i + 1] \in Mutable
      BY <1>2
    <3>2. QED
      BY <3>1, <1>2 DEF Chain, Elements
  <2>4. QED
    BY <2>1, <2>2, <2>3
<1>8. QED
  BY <1>3, <1>4, <1>5, <1>6, <1>7 DEF b

\* Nothing is below what is not a mutable item.
LEMMA StackOfOther ==
  ASSUME ItemAssumption, NEW h, h.next \in [Mutable -> Mutable \cup {None}],
         NEW o, o \notin Mutable
  PROVE  Stack (h, o) = {o} \ {None}
<1> DEFINE N == Cardinality (Mutable)
           b == Below (h, o)
<1>1. N \in Nat /\ b[0] = o /\ \A i \in 1 .. N : b[i] = Next1 (h, b[i - 1])
  BY BelowIs
<1>2. Stack (h, o) = {b[i] : i \in 0 .. N} \ {None}
  BY DEF Stack
<1> HIDE DEF b, N
<1> DEFINE T == {i \in 0 .. N : b[i] \in {o, None}}
<1>3. 0 \in T
  BY <1>1
<1>4. ASSUME NEW i \in 1 .. N, i - 1 \in T
      PROVE  i \in T
  BY <1>1, <1>4 DEF Next1, ItemAssumption
<1> HIDE DEF T
<1>5. \A i \in 0 .. N : i \in T
  BY <1>1, <1>3, <1>4, StepByStep
<1>6. \A i \in 0 .. N : b[i] \in {o, None}
  BY <1>5 DEF T
<1>7. 0 \in 0 .. N
  BY <1>1
<1>8. QED
  BY <1>1, <1>2, <1>6, <1>7

-----------------------------------------------------------------------------
(* Heaps whose slots are in order. *)

Heap (held, count, next, slot) == [held |-> held, count |-> count, next |-> next, slot |-> slot]

\* The mutable items in slot s are those of the list c, and all is known of them.
Filed (h, c, s) ==
  /\ h.held[s] = None <=> h.count[s] = 0
  /\ h.held[s] # None => h.count[s] <= MaxStack (h.held[s])
  /\ h.held[s] \in Mutable =>
       /\ Chain (h, c, h.count[s])
       /\ h.held[s] = c[1]
       /\ \A i \in 1 .. h.count[s] : h.slot[c[i]] = s /\ KindOf[c[i]] = KindOf[h.held[s]]
  /\ \A p \in Mutable : h.slot[p] = s =>
       h.held[s] \in Mutable /\ \E i \in 1 .. h.count[s] : c[i] = p

Good (h) == h \in HeapType /\ \A s \in Slot : \E c : Filed (h, c, s)

\* The n items of c are stacked and in no slot.
Loose (h, c, n) ==
  /\ Chain (h, c, n)
  /\ \A i \in 1 .. n : h.slot[c[i]] = None /\ KindOf[c[i]] = KindOf[c[1]]

Free (h) == {p \in Mutable : h.slot[p] = None}

\* How many items of kind k are in slot s.
Amount (h, s, k) == IF h.held[s] # None /\ KindOf[h.held[s]] = k THEN h.count[s] ELSE 0

\* g items of kind k went from slot t to slot s.
Moved (h, g, s, t, k, n) ==
  \A u \in Slot : \A j \in Kinds :
    Amount (g, u, j) = Amount (h, u, j) + (IF u = s /\ j = k THEN n ELSE 0)
                         - (IF u = t /\ j = k THEN n ELSE 0)

LEMMA HeapIs ==
  ASSUME NEW h \in HeapType
  PROVE  /\ h = Heap (h.held, h.count, h.next, h.slot)
         /\ h.held \in [Slot -> Item \cup {None}]
         /\ h.count \in [Slot -> Nat]
         /\ h.next \in [Mutable -> Mutable \cup {None}]
         /\ h.slot \in [Item -> Slot \cup {None}]
BY DEF HeapType, Heap

LEMMA HeapMade ==
  ASSUME NEW held \in [Slot -> Item \cup {None}], NEW count \in [Slot -> Nat],
         NEW next \in [Mutable -> Mutable \cup {None}], NEW slot \in [Item -> Slot \cup {None}]
  PROVE  Heap (held, count, next, slot) \in HeapType
BY DEF HeapType, Heap

LEMMA SetSlotIs ==
  ASSUME ItemAssumption, NEW h \in HeapType, NEW n \in Nat \ {0}, NEW c, Chain (h, c, n), NEW s
  PROVE  SetSlot (h, c[1], s) =
           Heap (h.held, h.count, h.next,
                 [p \in Item |-> IF p \in Elements (c, n) THEN s ELSE h.slot[p]])
<1>1. Stack (h, c[1]) = Elements (c, n)
  BY HeapIs, ChainStack
<1>2. SetSlot (h, c[1], s) =
        [h EXCEPT !.slot = [p \in Item |-> IF p \in Elements (c, n) THEN s ELSE @[p]]]
  BY <1>1 DEF SetSlot
<1> HIDE DEF Elements
<1>3. QED
  BY <1>2 DEF HeapType, Heap

\* What SetSlot makes of h, if c is the chain of n items.
Relabelled (h, c, n, s) ==
  Heap (h.held, h.count, h.next,
        [p \in Item |-> IF p \in Elements (c, n) THEN s ELSE h.slot[p]])

LEMMA SlotRelabelled ==
  ASSUME ItemAssumption, NEW h \in HeapType, NEW n \in Nat \ {0}, NEW c, Chain (h, c, n), NEW s
  PROVE  SetSlot (h, c[1], s) = Relabelled (h, c, n, s)
BY SetSlotIs DEF Relabelled

\* o is under the list c.
Under (h, c, n, o) == Heap (h.held, h.count, [h.next EXCEPT ![c[n]] = o], h.slot)

LEMMA PutUnderIs ==
  ASSUME ItemAssumption, NEW h \in HeapType, NEW n \in Nat \ {0}, NEW c, Chain (h, c, n), NEW o
  PROVE  PutUnder (h, c[1], o) = Under (h, c, n, o)
<1>1. Bottom (h, c[1]) = c[n]
  BY HeapIs, ChainStack
<1>2. PutUnder (h, c[1], o) = [h EXCEPT !.next[c[n]] = o]
  BY <1>1 DEF PutUnder
<1>3. QED
  BY <1>2 DEF HeapType, Heap, Under

\* The topmost n items of slot s, listed by c, are taken out.
TakenOff (h, c, s, n) ==
  Heap ([h.held EXCEPT ![s] = IF n = h.count[s] THEN None ELSE c[n + 1]],
        [h.count EXCEPT ![s] = h.count[s] - n],
        [h.next EXCEPT ![c[n]] = None],
        [p \in Item |-> IF p \in Elements (c, n) THEN None ELSE h.slot[p]])

\* A list that is cut off.
LEMMA ChainCut ==
  ASSUME NEW h \in HeapType, NEW m \in Nat, NEW c, Chain (h, c, m), NEW n \in 1 .. m,
         NEW g, g.next = [h.next EXCEPT ![c[n]] = None]
  PROVE  /\ Chain (g, c, n)
         /\ \A i \in 1 .. n : c[i] \in Mutable
<1>1. /\ \A i \in 1 .. m : c[i] \in Mutable
      /\ h.next \in [Mutable -> Mutable \cup {None}]
      /\ \A i, j \in 1 .. m : c[i] = c[j] => i = j
      /\ \A i \in 1 .. m : h.next[c[i]] = IF i = m THEN None ELSE c[i + 1]
  BY HeapIs DEF Chain
<1>2. 1 .. n \subseteq 1 .. m /\ n \in 1 .. n
  BY <1>1
<1>3. \A i \in 1 .. n : g.next[c[i]] = IF i = n THEN None ELSE c[i + 1]
  <2>1. \A i \in 1 .. n : i # n => c[i] # c[n] /\ i # m
    BY <1>1, <1>2
  <2>2. \A i \in 1 .. n : c[i] \in Mutable
    BY <1>1, <1>2
  <2>3. QED
    BY <1>1, <1>2, <2>1, <2>2
<1>4. QED
  BY <1>1, <1>2, <1>3 DEF Chain

\* slot::remove of the topmost n mutable items.
LEMMA RemoveTopIs ==
  ASSUME ItemAssumption, NEW h \in HeapType, NEW s \in Slot, NEW m \in Nat, h.count[s] = m,
         NEW c, Chain (h, c, m), NEW n \in 1 .. m
  PROVE  RemoveTop (h, s, c[1], n) = [heap |-> TakenOff (h, c, s, n), rest |-> 0]
<1> DEFINE g0 == [h EXCEPT !.count[s] = @ - n]
           g1 == [g0 EXCEPT !.next[c[n]] = None]
           r == RemoveTop (h, s, c[1], n)
           gone == IF h.count[s] > n THEN n ELSE h.count[s]
<1>1. gone = n
  OBVIOUS
<1>2. /\ h.held \in [Slot -> Item \cup {None}] /\ h.count \in [Slot -> Nat]
      /\ h.next \in [Mutable -> Mutable \cup {None}] /\ h.slot \in [Item -> Slot \cup {None}]
      /\ 1 \in 1 .. m /\ c[1] \in Mutable /\ c[n] \in Mutable
      /\ h = Heap (h.held, h.count, h.next, h.slot)
  BY HeapIs DEF Chain
<1>3. g0 = Heap (h.held, [h.count EXCEPT ![s] = m - n], h.next, h.slot)
  <2>1. [h.count EXCEPT ![s] = @ - n] = [h.count EXCEPT ![s] = m - n]
    BY <1>2
  <2>2. g0 = [held |-> h.held, count |-> [h.count EXCEPT ![s] = @ - n], next |-> h.next, slot |-> h.slot]
    BY DEF HeapType
  <2>3. QED
    BY <2>1, <2>2 DEF Heap
<1> HIDE DEF g0
<1>4. g0 \in HeapType
  <2>1. [h.count EXCEPT ![s] = m - n] \in [Slot -> Nat]
    <3>1. m - n \in Nat
      OBVIOUS
    <3>2. QED
      BY <1>2, <3>1
  <2>2. QED
    BY <1>2, <1>3, <2>1, HeapMade
<1>5. g0.next = h.next /\ g0.slot = h.slot /\ g0.held = h.held
      /\ g0.count = [h.count EXCEPT ![s] = m - n]
  BY <1>3 DEF Heap
<1>6. r = LET cut == Cut (g0, c[1], n)
          IN  [heap |-> [cut.heap EXCEPT !.held[s] = IF cut.heap.count[s] = 0 THEN None ELSE cut.rest],
               rest |-> n - n]
  BY <1>1, <1>2 DEF RemoveTop, g0
<1> HIDE DEF r
<1>7. Chain (g0, c, m)
  BY <1>5 DEF Chain
<1>8. Below (g0, c[1])[n - 1] = c[n]
  <2>1. m \in Nat \ {0} /\ g0.next \in [Mutable -> Mutable \cup {None}]
    BY <1>2, <1>5
  <2>2. QED
    BY <1>7, <2>1, ChainStack
<1>9. g1 = Heap (g0.held, g0.count, [h.next EXCEPT ![c[n]] = None], g0.slot)
  BY <1>4, <1>5 DEF HeapType, Heap
<1>10. g1 \in HeapType /\ g1.next = [h.next EXCEPT ![c[n]] = None]
       /\ g1.held = h.held /\ g1.count = g0.count /\ g1.slot = h.slot
  <2>1. [h.next EXCEPT ![c[n]] = None] \in [Mutable -> Mutable \cup {None}]
    BY <1>2
  <2>2. g0.held \in [Slot -> Item \cup {None}] /\ g0.count \in [Slot -> Nat]
        /\ g0.slot \in [Item -> Slot \cup {None}]
    BY <1>4, HeapIs
  <2>3. g1 \in HeapType
    BY <1>9, <2>1, <2>2, HeapMade
  <2>4. QED
    BY <1>5, <1>9, <2>3 DEF Heap
<1> HIDE DEF g1
<1>11. Chain (g1, c, n)
  BY <1>10, ChainCut
<1>12. Cut (g0, c[1], n) = [heap |-> SetSlot (g1, c[1], None), rest |-> h.next[c[n]]]
  <2>1. n # 0
    OBVIOUS
  <2>2. QED
    BY <1>5, <1>8, <2>1, Zenon DEF Cut, g1
<1> DEFINE q == [p \in Item |-> IF p \in Elements (c, n) THEN None ELSE h.slot[p]]
<1>13. SetSlot (g1, c[1], None) = Heap (h.held, g0.count, [h.next EXCEPT ![c[n]] = None], q)
  <2>1. g1 \in HeapType /\ n \in Nat \ {0} /\ Chain (g1, c, n)
    BY <1>10, <1>11
  <2>2. SetSlot (g1, c[1], None) = Relabelled (g1, c, n, None)
    BY <2>1, SlotRelabelled
  <2>3. /\ g1.held = h.held /\ g1.count = g0.count /\ g1.slot = h.slot
        /\ g1.next = [h.next EXCEPT ![c[n]] = None]
    BY <1>10
  <2>4. QED
    BY <2>2, <2>3 DEF Relabelled
<1> HIDE DEF q
<1>14. r = [heap |-> [SetSlot (g1, c[1], None) EXCEPT !.held[s] =
                        IF SetSlot (g1, c[1], None).count[s] = 0 THEN None ELSE h.next[c[n]]],
            rest |-> 0]
  BY <1>6, <1>12
<1>15. SetSlot (g1, c[1], None).count[s] = m - n
  BY <1>13, <1>5, <1>2 DEF Heap
<1>16. (IF m - n = 0 THEN None ELSE h.next[c[n]]) = IF n = m THEN None ELSE c[n + 1]
  BY DEF Chain
<1>17. r = [heap |-> [SetSlot (g1, c[1], None) EXCEPT !.held[s] = IF n = m THEN None ELSE c[n + 1]],
            rest |-> 0]
  BY <1>14, <1>15, <1>16
<1>18. [SetSlot (g1, c[1], None) EXCEPT !.held[s] = IF n = m THEN None ELSE c[n + 1]] =
         Heap ([h.held EXCEPT ![s] = IF n = m THEN None ELSE c[n + 1]], g0.count,
               [h.next EXCEPT ![c[n]] = None], q)
  BY <1>13 DEF Heap
<1>19. Heap ([h.held EXCEPT ![s] = IF n = m THEN None ELSE c[n + 1]], g0.count,
               [h.next EXCEPT ![c[n]] = None], q) = TakenOff (h, c, s, n)
  BY <1>5 DEF q, TakenOff
<1>20. QED
  BY <1>17, <1>18, <1>19 DEF r

\* A slot that nothing happens to stays as it is.
LEMMA FiledFrame ==
  ASSUME NEW h \in HeapType, NEW g, NEW u \in Slot, NEW c, Filed (h, c, u),
         g.held[u] = h.held[u], g.count[u] = h.count[u],
         \A p \in Mutable : (h.slot[p] = u => g.next[p] = h.next[p]) /\ (g.slot[p] = u <=> h.slot[p] = u)
  PROVE  Filed (g, c, u)
<1>1. ASSUME h.held[u] \in Mutable
      PROVE  /\ Chain (g, c, h.count[u])
             /\ h.held[u] = c[1]
             /\ \A i \in 1 .. h.count[u] : g.slot[c[i]] = u /\ KindOf[c[i]] = KindOf[h.held[u]]
  BY <1>1 DEF Filed, Chain
<1>2. QED
  BY <1>1 DEF Filed

\* What is below mutable items that stay out of the slots, and the slots
\* shared items were last seen in.
Frame (h, g) ==
  /\ \A p \in Free (h) \cap Free (g) : g.next[p] = h.next[p]
  /\ \A k \in Shared : g.slot[k] = h.slot[k]

LEMMA FiledItems ==
  ASSUME ItemAssumption, NEW h, Good (h), NEW s \in Slot, NEW c, Filed (h, c, s), h.held[s] \in Mutable
  PROVE  /\ h \in HeapType /\ h.count[s] \in Nat \ {0}
         /\ Chain (h, c, h.count[s]) /\ h.held[s] = c[1]
         /\ \A i \in 1 .. h.count[s] :
              c[i] \in Mutable /\ h.slot[c[i]] = s /\ KindOf[c[i]] = KindOf[h.held[s]]
         /\ \A p \in Mutable : h.slot[p] = s => \E i \in 1 .. h.count[s] : c[i] = p
         /\ h.count[s] <= MaxStack (h.held[s])
<1>1. h \in HeapType /\ h.held[s] # None /\ h.count[s] \in Nat
  BY HeapIs DEF Good, ItemAssumption
<1>2. QED
  BY <1>1 DEF Filed, Chain

LEMMA TakenOffGood ==
  ASSUME ItemAssumption, NEW h, Good (h), NEW s \in Slot, NEW c, Filed (h, c, s),
         h.held[s] \in Mutable, NEW n \in 1 .. h.count[s]
  PROVE  LET g == TakenOff (h, c, s, n)
         IN  /\ Good (g)
             /\ Loose (g, c, n)
             /\ Moved (h, g, None, s, KindOf[h.held[s]], n)
             /\ Free (g) = Free (h) \cup Elements (c, n)
             /\ Frame (h, g)
<1> DEFINE g == TakenOff (h, c, s, n)
           m == h.count[s]
           d == [i \in 1 .. m - n |-> c[i + n]]
           k == KindOf[h.held[s]]
<1>1. /\ h \in HeapType /\ m \in Nat \ {0} /\ Chain (h, c, m) /\ h.held[s] = c[1]
      /\ \A i \in 1 .. m : c[i] \in Mutable /\ h.slot[c[i]] = s /\ KindOf[c[i]] = k
      /\ \A p \in Mutable : h.slot[p] = s => \E i \in 1 .. m : c[i] = p
      /\ m <= MaxStack (h.held[s])
      /\ n \in 1 .. m
  BY FiledItems
<1>2. /\ h.held \in [Slot -> Item \cup {None}] /\ h.count \in [Slot -> Nat]
      /\ h.next \in [Mutable -> Mutable \cup {None}] /\ h.slot \in [Item -> Slot \cup {None}]
  BY <1>1, HeapIs
<1>3. /\ g.held = [h.held EXCEPT ![s] = IF n = m THEN None ELSE c[n + 1]]
      /\ g.count = [h.count EXCEPT ![s] = m - n]
      /\ g.next = [h.next EXCEPT ![c[n]] = None]
      /\ g.slot = [p \in Item |-> IF p \in Elements (c, n) THEN None ELSE h.slot[p]]
      /\ g = Heap (g.held, g.count, g.next, g.slot)
  BY DEF TakenOff, Heap
<1>4. None \notin Item /\ None \notin Slot /\ Mutable \subseteq Item /\ Mutable \cap Shared = {}
  BY DEF ItemAssumption, Item
<1> HIDE DEF g, m
<1>5. g \in HeapType
  <2>1. (IF n = m THEN None ELSE c[n + 1]) \in Item \cup {None} /\ m - n \in Nat
    BY <1>1, <1>4 DEF m
  <2>2. g.held \in [Slot -> Item \cup {None}] /\ g.count \in [Slot -> Nat]
    BY <1>2, <1>3, <2>1
  <2>3. g.next \in [Mutable -> Mutable \cup {None}]
    BY <1>1, <1>2, <1>3
  <2>4. g.slot \in [Item -> Slot \cup {None}]
    BY <1>2, <1>3
  <2>5. QED
    BY <1>3, <2>2, <2>3, <2>4, HeapMade
<1>6. /\ \A i \in 1 .. n : c[i] \in Elements (c, n) /\ i \in 1 .. m
      /\ \A i \in 1 .. m : c[i] \in Elements (c, n) => i \in 1 .. n
      /\ \A p \in Elements (c, n) : p \in Mutable /\ h.slot[p] = s
  <2>1. \A i \in 1 .. n : i \in 1 .. m
    BY <1>1
  <2>2. \A i, j \in 1 .. m : c[i] = c[j] => i = j
    BY <1>1 DEF Chain
  <2>3. QED
    BY <1>1, <2>1, <2>2 DEF Elements
<1>7. \A p \in Mutable : g.slot[p] = IF p \in Elements (c, n) THEN None ELSE h.slot[p]
  BY <1>3, <1>4
<1>8. Loose (g, c, n)
  <2>1. Chain (g, c, n)
    BY <1>1, <1>3, ChainCut DEF m
  <2>2. \A i \in 1 .. n : g.slot[c[i]] = None /\ KindOf[c[i]] = KindOf[c[1]]
    BY <1>1, <1>6, <1>7
  <2>3. QED
    BY <2>1, <2>2 DEF Loose
<1>9. Filed (g, d, s)
  <2>1. CASE n = m
    <3>1. g.held[s] = None /\ g.count[s] = 0
      BY <1>2, <1>3, <2>1
    <3>2. \A p \in Mutable : g.slot[p] # s
      BY <1>1, <1>4, <1>6, <1>7, <2>1
    <3>3. QED
      BY <3>1, <3>2, <1>4 DEF Filed
  <2>2. CASE n # m
    <3>1. /\ g.held[s] = c[n + 1] /\ g.count[s] = m - n /\ m - n \in Nat \ {0}
          /\ \A i \in 1 .. m - n : i + n \in 1 .. m /\ d[i] = c[i + n] /\ i + n \notin 1 .. n
      BY <1>1, <1>2, <1>3, <2>2 DEF m
    <3>2. /\ 1 \in 1 .. m - n /\ d[1] = c[n + 1] /\ n + 1 \in 1 .. m /\ c[n + 1] \in Mutable
          /\ KindOf[c[n + 1]] = k
      BY <1>1, <3>1
    <3> HIDE DEF d
    <3>3. \A i \in 1 .. m - n : d[i] \in Mutable /\ g.slot[d[i]] = s /\ KindOf[d[i]] = k
                                 /\ d[i] \notin Elements (c, n)
      BY <1>1, <1>6, <1>7, <3>1
    <3>4. Chain (g, d, m - n)
      <4>1. \A i, j \in 1 .. m - n : d[i] = d[j] => i = j
        <5>1. \A i, j \in 1 .. m : c[i] = c[j] => i = j
          BY <1>1 DEF Chain
        <5>2. QED
          BY <3>1, <5>1
      <4>2. ASSUME NEW i \in 1 .. m - n
            PROVE  g.next[d[i]] = IF i = m - n THEN None ELSE d[i + 1]
        <5>1. d[i] # c[n] /\ d[i] \in Mutable
          BY <3>3, <1>6
        <5>2. g.next[d[i]] = h.next[d[i]]
          BY <5>1, <1>2, <1>3
        <5>3. h.next[c[i + n]] = IF i + n = m THEN None ELSE c[i + n + 1]
          BY <1>1, <3>1 DEF Chain
        <5>4. i # m - n => i + 1 \in 1 .. m - n /\ (i + 1) + n = i + n + 1
          BY <3>1
        <5>5. i + n = m <=> i = m - n
          BY <1>1
        <5>6. i # m - n => d[i + 1] = c[i + n + 1]
          BY <5>4, <3>1
        <5>7. QED
          BY <5>2, <5>3, <5>5, <5>6, <3>1
      <4>3. QED
        BY <3>3, <4>1, <4>2 DEF Chain
    <3>5. ASSUME NEW p \in Mutable, g.slot[p] = s
          PROVE  \E i \in 1 .. m - n : d[i] = p
      <4>1. p \notin Elements (c, n) /\ h.slot[p] = s
        BY <3>5, <1>4, <1>7
      <4>2. PICK i \in 1 .. m : c[i] = p
        BY <4>1, <1>1
      <4>3. i \notin 1 .. n
        BY <4>1, <4>2, <1>6
      <4>4. i - n \in 1 .. m - n /\ (i - n) + n = i
        BY <4>3, <1>1
      <4>5. QED
        BY <4>2, <4>4, <3>1
    <3>6. m - n <= MaxStack (c[n + 1])
      <4>1. MaxStack (c[n + 1]) = MaxStack (h.held[s]) /\ MaxStack (h.held[s]) \in Nat
        BY <1>1, <3>2, <1>4 DEF MaxStack, ItemAssumption
      <4>2. QED
        BY <4>1, <1>1
    <3>7. QED
      BY <3>1, <3>2, <3>3, <3>4, <3>5, <3>6, <1>4 DEF Filed
  <2>3. QED
    BY <2>1, <2>2
<1>10. Good (g)
  <2>1. ASSUME NEW u \in Slot, u # s
        PROVE  \E e : Filed (g, e, u)
    <3>1. PICK e : Filed (h, e, u)
      BY DEF Good
    <3>2. g.held[u] = h.held[u] /\ g.count[u] = h.count[u]
      BY <1>2, <1>3, <2>1
    <3>3. ASSUME NEW p \in Mutable
          PROVE  (h.slot[p] = u => g.next[p] = h.next[p]) /\ (g.slot[p] = u <=> h.slot[p] = u)
      <4>1. g.slot[p] = u <=> h.slot[p] = u
        BY <1>4, <1>6, <1>7, <2>1
      <4>2. ASSUME h.slot[p] = u PROVE g.next[p] = h.next[p]
        <5>1. p # c[n]
          BY <4>2, <1>6, <2>1
        <5>2. QED
          BY <5>1, <1>2, <1>3
      <4>3. QED
        BY <4>1, <4>2
    <3>4. Filed (g, e, u)
      BY <3>1, <3>2, <3>3, <1>1, FiledFrame
    <3>5. QED
      BY <3>4
  <2>2. QED
    BY <1>5, <1>9, <2>1 DEF Good
<1>11. Moved (h, g, None, s, k, n)
  <2>1. ASSUME NEW u \in Slot, NEW j \in Kinds
        PROVE  Amount (g, u, j) = Amount (h, u, j) + (IF u = None /\ j = k THEN n ELSE 0)
                         - (IF u = s /\ j = k THEN n ELSE 0)
    <3>1. h.count[u] \in Nat /\ u # None
      BY <1>2, <1>4
    <3>2. CASE u = s
      <4>1. h.held[u] # None /\ KindOf[h.held[u]] = k /\ h.count[u] = m
        BY <3>2, <1>4 DEF m
      <4>2. g.count[u] = m - n
        BY <3>2, <1>2, <1>3
      <4>3. g.held[u] = IF n = m THEN None ELSE c[n + 1]
        BY <3>2, <1>2, <1>3
      <4>4. n # m => c[n + 1] # None /\ KindOf[c[n + 1]] = k
        <5>1. n # m => n + 1 \in 1 .. m
          BY <1>1 DEF m
        <5>2. QED
          BY <5>1, <1>1, <1>4
      <4>5. QED
        BY <3>1, <3>2, <4>1, <4>2, <4>3, <4>4, <1>1 DEF Amount
    <3>3. CASE u # s
      <4>1. g.held[u] = h.held[u] /\ g.count[u] = h.count[u]
        BY <1>2, <1>3, <3>3
      <4>2. QED
        BY <3>1, <3>3, <4>1 DEF Amount
    <3>4. QED
      BY <3>2, <3>3
  <2>2. QED
    BY <2>1 DEF Moved
<1>12. Free (g) = Free (h) \cup Elements (c, n)
  BY <1>6, <1>7 DEF Free
<1>13. Frame (h, g)
  <2>1. \A p \in Free (h) : g.next[p] = h.next[p]
    <3>1. \A p \in Free (h) : p \in Mutable /\ p # c[n]
      BY <1>6, <1>4 DEF Free
    <3>2. QED
      BY <3>1, <1>2, <1>3
  <2>2. \A q \in Shared : q \in Item /\ q \notin Elements (c, n)
    BY <1>4, <1>6 DEF Item
  <2>3. QED
    BY <2>1, <2>2, <1>3 DEF Frame
<1>14. QED
  BY <1>8, <1>10, <1>11, <1>12, <1>13 DEF g

\* The n items of c are put into slot s, under those that are there.
LaidOn (h, c, s, n) ==
  Heap ([h.held EXCEPT ![s] = IF h.held[s] = None THEN c[1] ELSE h.held[s]],
        [h.count EXCEPT ![s] = h.count[s] + n],
        IF h.held[s] = None THEN h.next ELSE [h.next EXCEPT ![Bottom (h, h.held[s])] = c[1]],
        [p \in Item |-> IF p \in Elements (c, n) THEN s ELSE h.slot[p]])

LEMMA LaidOnGood ==
  ASSUME ItemAssumption, NEW h, Good (h), NEW s \in Slot, NEW c, NEW n \in Nat \ {0}, Loose (h, c, n),
         h.held[s] # None => h.held[s] \in Mutable /\ KindOf[h.held[s]] = KindOf[c[1]],
         h.count[s] + n <= MaxStack (c[1])
  PROVE  LET g == LaidOn (h, c, s, n)
         IN  /\ Good (g)
             /\ Moved (h, g, s, None, KindOf[c[1]], n)
             /\ Free (g) = Free (h) \ Elements (c, n)
             /\ Frame (h, g)
<1> DEFINE g == LaidOn (h, c, s, n)
           m == h.count[s]
           k == KindOf[c[1]]
<1>1. /\ h \in HeapType
      /\ h.held \in [Slot -> Item \cup {None}] /\ h.count \in [Slot -> Nat]
      /\ h.next \in [Mutable -> Mutable \cup {None}] /\ h.slot \in [Item -> Slot \cup {None}]
      /\ m \in Nat
  BY HeapIs DEF Good
<1>2. None \notin Item /\ None \notin Slot /\ Mutable \subseteq Item /\ Mutable \cap Shared = {}
  BY DEF ItemAssumption, Item
<1>3. /\ 1 \in 1 .. n /\ n \in 1 .. n
      /\ \A i \in 1 .. n : c[i] \in Mutable /\ h.slot[c[i]] = None /\ KindOf[c[i]] = k
      /\ \A i, j \in 1 .. n : c[i] = c[j] => i = j
      /\ \A i \in 1 .. n : h.next[c[i]] = IF i = n THEN None ELSE c[i + 1]
      /\ c[1] \in Mutable /\ c[1] # None
  BY <1>2 DEF Loose, Chain
<1>4. PICK d : Filed (h, d, s)
  BY DEF Good
<1>5. h.held[s] = None => m = 0 /\ \A p \in Mutable : h.slot[p] # s
  BY <1>2, <1>4 DEF Filed
<1>6. h.held[s] # None =>
        /\ h.held[s] \in Mutable /\ KindOf[h.held[s]] = k
        /\ m \in Nat \ {0} /\ Chain (h, d, m) /\ h.held[s] = d[1]
        /\ \A i \in 1 .. m : d[i] \in Mutable /\ h.slot[d[i]] = s /\ KindOf[d[i]] = k
        /\ \A p \in Mutable : h.slot[p] = s => \E i \in 1 .. m : d[i] = p
        /\ Bottom (h, h.held[s]) = d[m] /\ m \in 1 .. m
  <2>1. SUFFICES ASSUME h.held[s] # None
                 PROVE  /\ h.held[s] \in Mutable /\ KindOf[h.held[s]] = k
                        /\ m \in Nat \ {0} /\ Chain (h, d, m) /\ h.held[s] = d[1]
                        /\ \A i \in 1 .. m : d[i] \in Mutable /\ h.slot[d[i]] = s /\ KindOf[d[i]] = k
                        /\ \A p \in Mutable : h.slot[p] = s => \E i \in 1 .. m : d[i] = p
                        /\ Bottom (h, h.held[s]) = d[m] /\ m \in 1 .. m
    OBVIOUS
  <2>2. h.held[s] \in Mutable /\ KindOf[h.held[s]] = k
    BY <2>1
  <2>3. /\ m \in Nat \ {0} /\ Chain (h, d, m) /\ h.held[s] = d[1]
        /\ \A i \in 1 .. m : d[i] \in Mutable /\ h.slot[d[i]] = s /\ KindOf[d[i]] = k
        /\ \A p \in Mutable : h.slot[p] = s => \E i \in 1 .. m : d[i] = p
    BY <1>4, <2>2, FiledItems
  <2>4. Bottom (h, h.held[s]) = d[m]
    BY <1>1, <2>3, ChainStack
  <2>5. QED
    BY <2>2, <2>3, <2>4
<1>7. /\ g.held = [h.held EXCEPT ![s] = IF h.held[s] = None THEN c[1] ELSE h.held[s]]
      /\ g.count = [h.count EXCEPT ![s] = m + n]
      /\ g.next = IF h.held[s] = None THEN h.next ELSE [h.next EXCEPT ![d[m]] = c[1]]
      /\ g.slot = [p \in Item |-> IF p \in Elements (c, n) THEN s ELSE h.slot[p]]
      /\ g = Heap (g.held, g.count, g.next, g.slot)
  <2>1. /\ g.held = [h.held EXCEPT ![s] = IF h.held[s] = None THEN c[1] ELSE h.held[s]]
        /\ g.count = [h.count EXCEPT ![s] = m + n]
        /\ g.next = IF h.held[s] = None THEN h.next ELSE [h.next EXCEPT ![Bottom (h, h.held[s])] = c[1]]
        /\ g.slot = [p \in Item |-> IF p \in Elements (c, n) THEN s ELSE h.slot[p]]
        /\ g = Heap (g.held, g.count, g.next, g.slot)
    BY DEF LaidOn, Heap
  <2> HIDE DEF g
  <2>2. QED
    BY <2>1, <1>6
<1> HIDE DEF g, m, k
<1>8. g \in HeapType
  <2>1. (IF h.held[s] = None THEN c[1] ELSE h.held[s]) \in Item \cup {None} /\ m + n \in Nat
    BY <1>1, <1>2, <1>3
  <2>2. g.held \in [Slot -> Item \cup {None}] /\ g.count \in [Slot -> Nat]
    BY <1>1, <1>7, <2>1
  <2>3. g.next \in [Mutable -> Mutable \cup {None}]
    <3> DEFINE f == [h.next EXCEPT ![d[m]] = c[1]]
    <3>1. h.next \in [Mutable -> Mutable \cup {None}] /\ c[1] \in Mutable
      BY <1>1, <1>3
    <3>2. f \in [Mutable -> Mutable \cup {None}]
      BY <3>1
    <3> HIDE DEF f
    <3>3. g.next = IF h.held[s] = None THEN h.next ELSE f
      BY <1>7 DEF f
    <3>4. QED
      BY <3>1, <3>2, <3>3
  <2>4. g.slot \in [Item -> Slot \cup {None}]
    BY <1>1, <1>7
  <2>5. QED
    BY <1>7, <2>2, <2>3, <2>4, HeapMade
<1>9. /\ \A i \in 1 .. n : c[i] \in Elements (c, n)
      /\ \A p \in Elements (c, n) : p \in Mutable /\ h.slot[p] = None /\ \E i \in 1 .. n : p = c[i]
  BY <1>3 DEF Elements
<1>10. \A p \in Mutable : g.slot[p] = IF p \in Elements (c, n) THEN s ELSE h.slot[p]
  BY <1>2, <1>7
<1>11. /\ g.count[s] = m + n /\ m + n \in Nat \ {0}
       /\ g.held[s] \in Mutable /\ g.held[s] # None /\ KindOf[g.held[s]] = k
  <2>1. g.held[s] = IF h.held[s] = None THEN c[1] ELSE h.held[s]
    BY <1>1, <1>7
  <2>2. KindOf[c[1]] = k
    BY DEF k
  <2>3. QED
    BY <1>1, <1>2, <1>3, <1>6, <1>7, <2>1, <2>2
<1>12. MaxStack (g.held[s]) = MaxStack (c[1])
  BY <1>11 DEF MaxStack, k
<1>13. \E e : Filed (g, e, s)
  <2> DEFINE e == [i \in 1 .. m + n |-> IF i <= m THEN d[i] ELSE c[i - m]]
  <2>1. \A i \in 1 .. m : e[i] = d[i] /\ i \in 1 .. m + n
    BY <1>1
  <2>2. \A i \in 1 .. n : e[i + m] = c[i] /\ i + m \in 1 .. m + n
    BY <1>1
  <2>3. \A i \in 1 .. m + n : i \in 1 .. m \/ (i - m \in 1 .. n /\ i = (i - m) + m)
    BY <1>1
  <2> HIDE DEF e
  <2>4. m # 0 => h.held[s] # None
    BY <1>5
  <2>5. \A i \in 1 .. m : /\ d[i] \in Mutable /\ g.slot[d[i]] = s /\ KindOf[d[i]] = k
                          /\ d[i] \notin Elements (c, n) /\ h.held[s] # None
    <3>1. \A i \in 1 .. m : h.held[s] # None
      BY <1>1, <2>4
    <3>2. \A i \in 1 .. m : d[i] \in Mutable /\ h.slot[d[i]] = s /\ KindOf[d[i]] = k
      BY <1>6, <3>1
    <3>3. QED
      BY <3>1, <3>2, <1>2, <1>9, <1>10
  <2>6. \A i \in 1 .. n : /\ c[i] \in Mutable /\ g.slot[c[i]] = s /\ KindOf[c[i]] = k
                          /\ c[i] \in Elements (c, n)
    BY <1>3, <1>9, <1>10
  <2>7. \A i \in 1 .. m + n : e[i] \in Mutable /\ g.slot[e[i]] = s /\ KindOf[e[i]] = k
    BY <2>1, <2>2, <2>3, <2>5, <2>6
  <2>8. ASSUME NEW i \in 1 .. m + n, NEW j \in 1 .. m + n, e[i] = e[j]
        PROVE  i = j
    <3>1. CASE i \in 1 .. m /\ j \in 1 .. m
      BY <3>1, <2>1, <2>5, <1>6, <2>8 DEF Chain
    <3>2. CASE i \in 1 .. m /\ j \notin 1 .. m
      BY <3>2, <2>1, <2>2, <2>3, <2>5, <2>6, <2>8
    <3>3. CASE i \notin 1 .. m /\ j \in 1 .. m
      BY <3>3, <2>1, <2>2, <2>3, <2>5, <2>6, <2>8
    <3>4. CASE i \notin 1 .. m /\ j \notin 1 .. m
      <4>1. i - m \in 1 .. n /\ j - m \in 1 .. n /\ c[i - m] = c[j - m]
        BY <3>4, <2>2, <2>3, <2>8
      <4>2. i - m = j - m
        BY <4>1, <1>3
      <4>3. QED
        BY <4>2, <1>1
    <3>5. QED
      BY <3>1, <3>2, <3>3, <3>4
  <2>9. ASSUME NEW i \in 1 .. m + n
        PROVE  g.next[e[i]] = IF i = m + n THEN None ELSE e[i + 1]
    <3>1. CASE i \in 1 .. m
      <4>1. e[i] = d[i] /\ d[i] \in Mutable /\ h.held[s] # None
        BY <3>1, <2>1, <2>5
      <4>2. CASE i = m
        <5>1. g.next[d[m]] = c[1]
          BY <4>1, <4>2, <1>1, <1>7
        <5>2. e[1 + m] = c[1] /\ i + 1 = 1 + m /\ i # m + n
          BY <4>2, <2>2, <1>3, <1>1
        <5>3. QED
          BY <4>1, <4>2, <5>1, <5>2
      <4>3. CASE i # m
        <5>1. d[i] # d[m]
          BY <3>1, <4>1, <4>3, <1>6 DEF Chain
        <5>2. g.next[d[i]] = h.next[d[i]]
          BY <5>1, <4>1, <1>1, <1>7
        <5>3. h.next[d[i]] = d[i + 1]
          BY <3>1, <4>1, <4>3, <1>6 DEF Chain
        <5>4. i + 1 \in 1 .. m /\ i # m + n
          BY <3>1, <4>3, <1>1
        <5>5. QED
          BY <4>1, <5>2, <5>3, <5>4, <2>1
      <4>4. QED
        BY <4>2, <4>3
    <3>2. CASE i \notin 1 .. m
      <4> DEFINE j == i - m
      <4>1. j \in 1 .. n /\ i = j + m
        BY <3>2, <2>3
      <4>2. e[i] = c[j] /\ c[j] \in Mutable /\ c[j] \in Elements (c, n)
        BY <4>1, <2>2, <2>6
      <4> HIDE DEF j
      <4>3. h.held[s] # None => c[j] # d[m]
        BY <4>2, <1>6, <2>5
      <4>4. g.next[c[j]] = h.next[c[j]]
        BY <4>2, <4>3, <1>1, <1>7
      <4>5. h.next[c[j]] = IF j = n THEN None ELSE c[j + 1]
        BY <4>1, <1>3
      <4>6. j # n => j + 1 \in 1 .. n
        BY <4>1
      <4>7. j # n => e[(j + 1) + m] = c[j + 1]
        BY <4>6, <2>2
      <4>8. (j + 1) + m = i + 1 /\ (j = n <=> i = m + n)
        BY <4>1, <1>1
      <4>9. QED
        BY <4>2, <4>4, <4>5, <4>7, <4>8
    <3>3. QED
      BY <3>1, <3>2
  <2>10. Chain (g, e, m + n)
    BY <2>7, <2>8, <2>9 DEF Chain
  <2>11. g.held[s] = e[1]
    <3>1. g.held[s] = IF h.held[s] = None THEN c[1] ELSE h.held[s]
      BY <1>1, <1>7
    <3>2. CASE h.held[s] = None
      <4>1. m = 0 /\ e[1 + m] = c[1] /\ 1 + m = 1
        BY <3>2, <1>5, <2>2, <1>3
      <4>2. QED
        BY <3>1, <3>2, <4>1
    <3>3. CASE h.held[s] # None
      <4>1. 1 \in 1 .. m /\ h.held[s] = d[1]
        BY <3>3, <1>6
      <4>2. QED
        BY <3>1, <3>3, <4>1, <2>1
    <3>4. QED
      BY <3>2, <3>3
  <2>12. ASSUME NEW p \in Mutable, g.slot[p] = s
         PROVE  \E i \in 1 .. m + n : e[i] = p
    <3>1. CASE p \in Elements (c, n)
      BY <3>1, <1>9, <2>2
    <3>2. CASE p \notin Elements (c, n)
      <4>1. h.slot[p] = s
        BY <2>12, <3>2, <1>10
      <4>2. h.held[s] # None
        BY <4>1, <1>5
      <4>3. PICK i \in 1 .. m : d[i] = p
        BY <4>1, <4>2, <1>6
      <4>4. QED
        BY <4>3, <2>1
    <3>3. QED
      BY <3>1, <3>2
  <2>13. m + n <= MaxStack (g.held[s])
    BY <1>12 DEF m
  <2>14. Filed (g, e, s)
    BY <1>11, <2>7, <2>10, <2>11, <2>12, <2>13 DEF Filed
  <2>15. QED
    BY <2>14
<1>14. Good (g)
  <2>1. ASSUME NEW u \in Slot, u # s
        PROVE  \E e : Filed (g, e, u)
    <3>1. PICK e : Filed (h, e, u)
      BY DEF Good
    <3>2. g.held[u] = h.held[u] /\ g.count[u] = h.count[u]
      BY <1>1, <1>7, <2>1
    <3>3. ASSUME NEW p \in Mutable
          PROVE  (h.slot[p] = u => g.next[p] = h.next[p]) /\ (g.slot[p] = u <=> h.slot[p] = u)
      <4>1. g.slot[p] = u <=> h.slot[p] = u
        BY <1>2, <1>9, <1>10, <2>1
      <4>2. ASSUME h.slot[p] = u PROVE g.next[p] = h.next[p]
        <5>1. h.held[s] # None => p # d[m]
          BY <4>2, <1>6, <2>1
        <5>2. QED
          BY <5>1, <1>1, <1>7
      <4>3. QED
        BY <4>1, <4>2
    <3>4. Filed (g, e, u)
      BY <3>1, <3>2, <3>3, <1>1, FiledFrame
    <3>5. QED
      BY <3>4
  <2>2. QED
    BY <1>8, <1>13, <2>1 DEF Good
<1>15. Moved (h, g, s, None, k, n)
  <2>1. ASSUME NEW u \in Slot, NEW j \in Kinds
        PROVE  Amount (g, u, j) = Amount (h, u, j) + (IF u = s /\ j = k THEN n ELSE 0)
                         - (IF u = None /\ j = k THEN n ELSE 0)
    <3>1. h.count[u] \in Nat /\ u # None
      BY <1>1, <1>2
    <3>2. CASE u = s
      <4>1. h.held[u] # None => KindOf[h.held[u]] = k
        BY <3>2, <1>6
      <4>2. h.held[u] = None => h.count[u] = 0
        BY <3>2, <1>5 DEF m
      <4>3. g.count[u] = h.count[u] + n
        BY <3>2, <1>11 DEF m
      <4>4. g.held[u] # None /\ KindOf[g.held[u]] = k
        BY <3>2, <1>11
      <4>5. QED
        BY <3>1, <3>2, <4>1, <4>2, <4>3, <4>4 DEF Amount
    <3>3. CASE u # s
      <4>1. g.held[u] = h.held[u] /\ g.count[u] = h.count[u]
        BY <1>1, <1>7, <3>3
      <4>2. QED
        BY <3>1, <3>3, <4>1 DEF Amount
    <3>4. QED
      BY <3>2, <3>3
  <2>2. QED
    BY <2>1 DEF Moved
<1>16. Free (g) = Free (h) \ Elements (c, n)
  BY <1>2, <1>9, <1>10 DEF Free
<1>17. Frame (h, g)
  <2>1. \A p \in Free (h) : g.next[p] = h.next[p]
    <3>1. \A p \in Free (h) : p \in Mutable /\ (h.held[s] # None => p # d[m])
      BY <1>6, <1>2 DEF Free
    <3>2. QED
      BY <3>1, <1>1, <1>7
  <2>2. \A q \in Shared : q \in Item /\ q \notin Elements (c, n)
    BY <1>2, <1>9 DEF Item
  <2>3. QED
    BY <2>1, <2>2, <1>7 DEF Frame
<1>18. QED
  BY <1>14, <1>15, <1>16, <1>17 DEF g, k

\* What slot::remove does with the topmost n mutable items of a slot.
LEMMA RemoveItemsIs ==
  ASSUME ItemAssumption, NEW h, Good (h), NEW s \in Slot, NEW c, Filed (h, c, s),
         h.held[s] \in Mutable, NEW n \in 1 .. h.count[s]
  PROVE  RemoveItems (h, s, h.held[s], n) = [heap |-> TakenOff (h, c, s, n), rest |-> 0]
<1>1. h \in HeapType /\ h.count[s] \in Nat \ {0} /\ Chain (h, c, h.count[s]) /\ h.held[s] = c[1]
  BY FiledItems
<1>2. n # 0
  BY <1>1
<1>3. RemoveItems (h, s, h.held[s], n) = RemoveTop (h, s, c[1], n)
  BY <1>1, <1>2 DEF RemoveItems
<1>4. RemoveTop (h, s, c[1], n) = [heap |-> TakenOff (h, c, s, n), rest |-> 0]
  BY <1>1, RemoveTopIs
<1>5. QED
  BY <1>3, <1>4

\* The items of a list are counted in a slot and told where they are.
LEMMA ArriveIs ==
  ASSUME ItemAssumption, NEW h \in HeapType, NEW s \in Slot, NEW n \in Nat \ {0},
         NEW c, Chain (h, c, n)
  PROVE  Arrive (h, s, c[1], n) =
           Heap (h.held, [h.count EXCEPT ![s] = h.count[s] + n], h.next,
                 [p \in Item |-> IF p \in Elements (c, n) THEN s ELSE h.slot[p]])
<1> DEFINE g == [h EXCEPT !.count[s] = @ + n]
<1>1. /\ h.held \in [Slot -> Item \cup {None}] /\ h.count \in [Slot -> Nat]
      /\ h.next \in [Mutable -> Mutable \cup {None}] /\ h.slot \in [Item -> Slot \cup {None}]
  BY HeapIs
<1>2. c[1] \in Mutable
  BY DEF Chain
<1>3. g = Heap (h.held, [h.count EXCEPT ![s] = h.count[s] + n], h.next, h.slot)
  BY DEF HeapType, Heap
<1>4. Arrive (h, s, c[1], n) = SetSlot (g, c[1], s)
  BY <1>2 DEF Arrive
<1> HIDE DEF g
<1>5. /\ g.held = h.held /\ g.count = [h.count EXCEPT ![s] = h.count[s] + n]
      /\ g.next = h.next /\ g.slot = h.slot
  BY <1>3 DEF Heap
<1>6. g \in HeapType
  <2>1. [h.count EXCEPT ![s] = h.count[s] + n] \in [Slot -> Nat]
    BY <1>1
  <2>2. QED
    BY <1>1, <1>3, <2>1, HeapMade
<1>7. Chain (g, c, n)
  BY <1>5 DEF Chain
<1>8. SetSlot (g, c[1], s) =
           Heap (g.held, g.count, g.next,
                 [p \in Item |-> IF p \in Elements (c, n) THEN s ELSE g.slot[p]])
  BY <1>6, <1>7, SetSlotIs
<1>9. QED
  BY <1>4, <1>5, <1>8

\* What slot::add prepares for a mutable item.
Readied (h, s, o) ==
  Heap ([h.held EXCEPT ![s] = IF h.held[s] = None THEN o ELSE h.held[s]], h.count,
        IF h.held[s] = None THEN h.next ELSE [h.next EXCEPT ![Bottom (h, h.held[s])] = o],
        h.slot)

LEMMA ReadyIs ==
  ASSUME ItemAssumption, NEW h, Good (h), NEW s \in Slot, NEW o \in Mutable,
         h.held[s] # None => h.held[s] \in Mutable
  PROVE  /\ Ready (h, s, o) = Readied (h, s, o)
         /\ Ready (h, s, o) \in HeapType
         /\ h.held[s] # None => Bottom (h, h.held[s]) \in Mutable /\ h.slot[Bottom (h, h.held[s])] = s
<1>1. /\ h \in HeapType
      /\ h.held \in [Slot -> Item \cup {None}] /\ h.count \in [Slot -> Nat]
      /\ h.next \in [Mutable -> Mutable \cup {None}] /\ h.slot \in [Item -> Slot \cup {None}]
  BY HeapIs DEF Good
<1>2. o \in Item
  BY DEF Item
<1>3. CASE h.held[s] = None
  <2>1. Ready (h, s, o) = [h EXCEPT !.held[s] = o]
    BY <1>3 DEF Ready
  <2>2. Ready (h, s, o) = Heap ([h.held EXCEPT ![s] = o], h.count, h.next, h.slot)
    BY <1>1, <2>1 DEF HeapType, Heap
  <2>3. [h.held EXCEPT ![s] = o] \in [Slot -> Item \cup {None}]
    BY <1>1, <1>2
  <2>4. QED
    BY <1>1, <1>3, <2>2, <2>3, HeapMade DEF Readied
<1>4. CASE h.held[s] # None
  <2>1. Ready (h, s, o) = PutUnder (h, h.held[s], o)
    BY <1>4 DEF Ready
  <2>2. PICK d : Filed (h, d, s)
    BY DEF Good
  <2> DEFINE m == h.count[s]
  <2>3. m \in Nat \ {0} /\ Chain (h, d, m) /\ h.held[s] = d[1] /\ d[m] \in Mutable /\ h.slot[d[m]] = s
    <3>1. /\ m \in Nat \ {0} /\ Chain (h, d, m) /\ h.held[s] = d[1]
          /\ \A i \in 1 .. m : d[i] \in Mutable /\ h.slot[d[i]] = s
      BY <1>4, <2>2, FiledItems
    <3>2. m \in 1 .. m
      BY <3>1
    <3>3. QED
      BY <3>1, <3>2
  <2>4. Bottom (h, h.held[s]) = d[m]
    BY <1>1, <2>3, ChainStack
  <2>5. Ready (h, s, o) = Heap (h.held, h.count, [h.next EXCEPT ![d[m]] = o], h.slot)
    <3>1. PutUnder (h, d[1], o) = Under (h, d, m, o)
      BY <1>1, <2>3, PutUnderIs
    <3>2. QED
      BY <2>1, <2>3, <3>1 DEF Under
  <2>6. [h.next EXCEPT ![d[m]] = o] \in [Mutable -> Mutable \cup {None}]
    BY <1>1, <2>3
  <2>7. h.held = [h.held EXCEPT ![s] = h.held[s]]
    BY <1>1
  <2> HIDE DEF m
  <2>8. QED
    BY <1>1, <1>4, <2>3, <2>4, <2>5, <2>6, <2>7, HeapMade DEF Readied
<1>5. QED
  BY <1>3, <1>4

\* A list no element of which is at the bottom of slot s is not disturbed.
LEMMA ReadyKeepsChain ==
  ASSUME ItemAssumption, NEW h, Good (h), NEW s \in Slot, NEW o \in Mutable,
         h.held[s] # None => h.held[s] \in Mutable,
         NEW n \in Nat, NEW c, Chain (h, c, n), \A i \in 1 .. n : h.slot[c[i]] # s
  PROVE  Chain (Ready (h, s, o), c, n)
<1>1. Ready (h, s, o).next =
        IF h.held[s] = None THEN h.next ELSE [h.next EXCEPT ![Bottom (h, h.held[s])] = o]
  BY ReadyIs DEF Readied, Heap
<1>2. h.next \in [Mutable -> Mutable \cup {None}] /\ \A i \in 1 .. n : c[i] \in Mutable
  BY HeapIs DEF Good, Chain
<1>3. h.held[s] # None => \A i \in 1 .. n : c[i] # Bottom (h, h.held[s])
  BY ReadyIs
<1>4. \A i \in 1 .. n : Ready (h, s, o).next[c[i]] = h.next[c[i]]
  BY <1>1, <1>2, <1>3
<1>5. QED
  BY <1>4 DEF Chain

\* What slot::add does with mutable items that are in no slot.
LEMMA AddLooseIs ==
  ASSUME ItemAssumption, NEW h, Good (h), NEW s \in Slot, NEW c, NEW n \in Nat \ {0}, Loose (h, c, n),
         h.held[s] # None => h.held[s] \in Mutable /\ KindOf[h.held[s]] = KindOf[c[1]],
         h.count[s] + n <= MaxStack (c[1])
  PROVE  AddItems (h, s, c[1], n) = [heap |-> LaidOn (h, c, s, n), rest |-> 0]
<1> DEFINE o == c[1]
           g == Ready (h, s, o)
<1>1. /\ h \in HeapType /\ h.count \in [Slot -> Nat] /\ h.slot \in [Item -> Slot \cup {None}]
  BY HeapIs DEF Good
<1>2. /\ o \in Mutable /\ o # None /\ h.slot[o] = None /\ None # s /\ MaxStack (o) \in Nat
      /\ \A i \in 1 .. n : h.slot[c[i]] = None
  BY DEF Loose, Chain, ItemAssumption, MaxStack
<1>3. /\ g = Heap ([h.held EXCEPT ![s] = IF h.held[s] = None THEN o ELSE h.held[s]], h.count,
                    IF h.held[s] = None THEN h.next ELSE [h.next EXCEPT ![Bottom (h, h.held[s])] = o],
                    h.slot)
      /\ g \in HeapType
  BY <1>2, ReadyIs DEF Readied
<1>4. Chain (g, c, n)
  BY <1>2, ReadyKeepsChain DEF Loose
<1>5. g.count = h.count /\ g.slot = h.slot
  BY <1>3 DEF Heap
<1>6. AddItems (h, s, o, n) = Take (g, s, o, n)
  <2>1. h.held[s] # None => MaxStack (h.held[s]) = MaxStack (o) /\ Same (h.held[s], o)
    BY DEF MaxStack, Same
  <2>2. h.held[s] # None => ~ (h.count[s] >= MaxStack (h.held[s]) \/ ~ Same (h.held[s], o))
    BY <2>1, <1>1, <1>2
  <2>3. ~ (n = 0 \/ (h.held[s] # None /\ h.slot[o] = s))
    BY <1>2
  <2>4. ~ (n > 0 /\ h.held[s] # None /\ h.slot[o] # s
              /\ (h.count[s] >= MaxStack (h.held[s]) \/ ~ Same (h.held[s], o)))
    BY <2>2
  <2> HIDE DEF g, o
  <2>5. QED
    BY <2>3, <2>4 DEF AddItems, g
<1> HIDE DEF g
<1>7. Fitting (g, s, o, n) = n
  BY <1>1, <1>2, <1>5 DEF Fitting
<1>8. TakeFrom (g, o, n) = [heap |-> g, rest |-> 0]
  BY <1>2, <1>5 DEF TakeFrom
<1>9. Take (g, s, o, n) = [heap |-> Arrive (g, s, o, n - 0), rest |-> n - (n - 0)]
  BY <1>7, <1>8 DEF Take
<1>10. n - 0 = n /\ n - (n - 0) = 0
  OBVIOUS
<1>11. Arrive (g, s, o, n) = Heap (g.held, [g.count EXCEPT ![s] = g.count[s] + n], g.next,
                 [p \in Item |-> IF p \in Elements (c, n) THEN s ELSE g.slot[p]])
  BY <1>3, <1>4, ArriveIs
<1>12. Arrive (g, s, o, n) = LaidOn (h, c, s, n)
  BY <1>3, <1>5, <1>11 DEF LaidOn, Heap
<1>13. QED
  BY <1>6, <1>9, <1>10, <1>12

Least (a, b) == IF a > b THEN b ELSE a

\* What slot::add does with mutable items of another slot.
LEMMA AddFiledIs ==
  ASSUME ItemAssumption, NEW h, Good (h), NEW s \in Slot, NEW t \in Slot, s # t,
         NEW c, Filed (h, c, t), h.held[t] \in Mutable, NEW n \in 1 .. h.count[t],
         h.held[s] # None => h.held[s] \in Mutable /\ KindOf[h.held[s]] = KindOf[h.held[t]],
         NEW q \in Nat \ {0}, q = Least (MaxStack (h.held[t]) - h.count[s], n)
  PROVE  AddItems (h, s, h.held[t], n) =
           [heap |-> LaidOn (TakenOff (h, c, t, q), c, s, q), rest |-> n - q]
<1> DEFINE o == c[1]
           g == Ready (h, s, o)
           k == TakenOff (g, c, t, q)
           l == TakenOff (h, c, t, q)
<1>1. /\ h \in HeapType /\ h.held \in [Slot -> Item \cup {None}]
      /\ h.count \in [Slot -> Nat] /\ h.slot \in [Item -> Slot \cup {None}]
      /\ h.next \in [Mutable -> Mutable \cup {None}]
  BY HeapIs DEF Good
<1>2. /\ h.count[t] \in Nat \ {0} /\ Chain (h, c, h.count[t]) /\ h.held[t] = o
      /\ \A i \in 1 .. h.count[t] : c[i] \in Mutable /\ h.slot[c[i]] = t
  BY FiledItems
<1>3. o \in Mutable /\ o # None /\ h.slot[o] = t /\ MaxStack (o) \in Nat /\ None # s /\ None # t
  BY <1>1, <1>2 DEF ItemAssumption, MaxStack
<1>4. q \in 1 .. h.count[t] /\ q <= n /\ q <= MaxStack (o) - h.count[s]
  BY <1>1, <1>2, <1>3 DEF Least
<1>5. g = Readied (h, s, o) /\ g \in HeapType
      /\ (h.held[s] # None => Bottom (h, h.held[s]) \in Mutable /\ h.slot[Bottom (h, h.held[s])] = s)
  BY <1>3, ReadyIs
<1>6. Chain (g, c, h.count[t])
  BY <1>2, <1>3, ReadyKeepsChain
<1>7. /\ g.held = [h.held EXCEPT ![s] = IF h.held[s] = None THEN o ELSE h.held[s]]
      /\ g.count = h.count /\ g.slot = h.slot
      /\ g.next = IF h.held[s] = None THEN h.next ELSE [h.next EXCEPT ![Bottom (h, h.held[s])] = o]
  BY <1>5 DEF Readied, Heap
<1>8. AddItems (h, s, o, n) = Take (g, s, o, n)
  <2>1. h.held[s] # None => MaxStack (h.held[s]) = MaxStack (o) /\ Same (h.held[s], o)
    BY <1>2 DEF MaxStack, Same
  <2>2. h.held[s] # None => ~ (h.count[s] >= MaxStack (h.held[s]) \/ ~ Same (h.held[s], o))
    BY <2>1, <1>1, <1>3, <1>4
  <2>3. ~ (n = 0 \/ (h.held[s] # None /\ h.slot[o] = s))
    BY <1>3
  <2>4. ~ (n > 0 /\ h.held[s] # None /\ h.slot[o] # s
              /\ (h.count[s] >= MaxStack (h.held[s]) \/ ~ Same (h.held[s], o)))
    BY <2>2
  <2> HIDE DEF g, o
  <2>5. QED
    BY <2>3, <2>4 DEF AddItems, g
<1> HIDE DEF g
<1>9. Fitting (g, s, o, n) = q
  BY <1>1, <1>2, <1>7 DEF Fitting, Least
<1>10. g.held[t] = o
  BY <1>1, <1>2, <1>7
<1>11. TakeFrom (g, o, q) = [heap |-> k, rest |-> 0]
  <2>1. TakeFrom (g, o, q) = RemoveItems (g, t, o, q)
    BY <1>3, <1>7 DEF TakeFrom
  <2>2. RemoveItems (g, t, o, q) = RemoveTop (g, t, o, q)
    BY <1>10 DEF RemoveItems
  <2>3. RemoveTop (g, t, o, q) = [heap |-> k, rest |-> 0]
    <3>1. g.count[t] = h.count[t]
      BY <1>7
    <3>2. QED
      BY <3>1, <1>2, <1>4, <1>5, <1>6, RemoveTopIs
  <2>4. QED
    BY <2>1, <2>2, <2>3
<1>12. /\ k = Heap (k.held, k.count, k.next, k.slot)
       /\ k.held = [g.held EXCEPT ![t] = IF q = g.count[t] THEN None ELSE c[q + 1]]
       /\ k.count = [g.count EXCEPT ![t] = g.count[t] - q]
       /\ k.next = [g.next EXCEPT ![c[q]] = None]
       /\ k.slot = [p \in Item |-> IF p \in Elements (c, q) THEN None ELSE g.slot[p]]
  BY DEF TakenOff, Heap
<1>13. /\ l.held = [h.held EXCEPT ![t] = IF q = h.count[t] THEN None ELSE c[q + 1]]
       /\ l.count = [h.count EXCEPT ![t] = h.count[t] - q]
       /\ l.next = [h.next EXCEPT ![c[q]] = None]
       /\ l.slot = [p \in Item |-> IF p \in Elements (c, q) THEN None ELSE h.slot[p]]
  BY DEF TakenOff, Heap
<1>14. Good (l) /\ Loose (l, c, q)
  BY <1>4, TakenOffGood
<1> HIDE DEF k, l
<1>15. k \in HeapType
  <2>1. (IF q = g.count[t] THEN None ELSE c[q + 1]) \in Item \cup {None} /\ g.count[t] - q \in Nat
    <3>1. g.count[t] = h.count[t] /\ (q # h.count[t] => q + 1 \in 1 .. h.count[t])
      BY <1>2, <1>4, <1>7
    <3>2. QED
      BY <3>1, <1>2, <1>4 DEF Item
  <2>2. /\ g.held \in [Slot -> Item \cup {None}] /\ g.count \in [Slot -> Nat]
        /\ g.next \in [Mutable -> Mutable \cup {None}] /\ g.slot \in [Item -> Slot \cup {None}]
    BY <1>5, HeapIs
  <2>3. c[q] \in Mutable
    BY <1>2, <1>4
  <2>4. k.held \in [Slot -> Item \cup {None}] /\ k.count \in [Slot -> Nat]
    BY <1>12, <2>1, <2>2
  <2>5. k.next \in [Mutable -> Mutable \cup {None}]
    BY <1>12, <2>2, <2>3
  <2>6. k.slot \in [Item -> Slot \cup {None}]
    BY <1>12, <2>2
  <2>7. QED
    BY <1>12, <2>4, <2>5, <2>6, HeapMade
<1>16. Chain (k, c, q)
  BY <1>4, <1>5, <1>6, <1>12, ChainCut, <1>2
<1>17. Take (g, s, o, n) = [heap |-> Arrive (k, s, o, q), rest |-> n - q]
  <2>1. Take (g, s, o, n) = [heap |-> Arrive (k, s, o, q - 0), rest |-> n - (q - 0)]
    BY <1>9, <1>11 DEF Take
  <2>2. q - 0 = q
    OBVIOUS
  <2>3. QED
    BY <2>1, <2>2
<1>18. Arrive (k, s, o, q) = Heap (k.held, [k.count EXCEPT ![s] = k.count[s] + q], k.next,
                 [p \in Item |-> IF p \in Elements (c, q) THEN s ELSE k.slot[p]])
  BY <1>15, <1>16, ArriveIs
<1>19. Bottom (l, l.held[s]) = Bottom (h, h.held[s]) \/ h.held[s] = None
  <2>1. SUFFICES ASSUME h.held[s] # None PROVE Bottom (l, l.held[s]) = Bottom (h, h.held[s])
    OBVIOUS
  <2>2. PICK d : Filed (h, d, s)
    BY DEF Good
  <2>3. /\ h.count[s] \in Nat \ {0} /\ Chain (h, d, h.count[s]) /\ h.held[s] = d[1]
        /\ \A i \in 1 .. h.count[s] : d[i] \in Mutable /\ h.slot[d[i]] = s
    BY <2>1, <2>2, FiledItems
  <2>4. Bottom (h, h.held[s]) = d[h.count[s]]
    BY <1>1, <2>3, ChainStack
  <2>5. \A i \in 1 .. h.count[s] : l.next[d[i]] = h.next[d[i]]
    <3>1. \A i \in 1 .. h.count[s] : d[i] # c[q]
      BY <1>2, <1>4, <2>3
    <3>2. QED
      BY <3>1, <1>1, <1>13, <2>3
  <2>6. Chain (l, d, h.count[s])
    BY <2>3, <2>5 DEF Chain
  <2>7. l.held[s] = d[1]
    BY <1>1, <1>13, <2>3
  <2>8. l.next \in [Mutable -> Mutable \cup {None}]
    BY <1>14, HeapIs DEF Good
  <2>9. Bottom (l, d[1]) = d[h.count[s]]
    BY <2>3, <2>6, <2>8, ChainStack
  <2>10. QED
    BY <2>4, <2>7, <2>9
<1>20. l.held[s] = h.held[s] /\ l.count[s] = h.count[s] /\ k.count[s] = h.count[s]
  BY <1>1, <1>7, <1>12, <1>13
<1>21. k.held = [l.held EXCEPT ![s] = IF l.held[s] = None THEN o ELSE l.held[s]]
  <2> DEFINE x == IF h.held[s] = None THEN o ELSE h.held[s]
             y == IF q = h.count[t] THEN None ELSE c[q + 1]
  <2>1. k.held = [[h.held EXCEPT ![s] = x] EXCEPT ![t] = y]
    BY <1>7, <1>12
  <2>2. l.held = [h.held EXCEPT ![t] = y]
    BY <1>13
  <2> HIDE DEF y
  <2>3. [[h.held EXCEPT ![s] = x] EXCEPT ![t] = y] = [[h.held EXCEPT ![t] = y] EXCEPT ![s] = x]
    <3> HIDE DEF x
    <3>1. QED
      BY <1>1
  <2>4. QED
    BY <2>1, <2>2, <2>3, <1>20
<1>22. [k.count EXCEPT ![s] = k.count[s] + q] = [l.count EXCEPT ![s] = l.count[s] + q]
  BY <1>7, <1>12, <1>13
<1>23. k.next = IF l.held[s] = None THEN l.next ELSE [l.next EXCEPT ![Bottom (l, l.held[s])] = o]
  <2>1. CASE h.held[s] = None
    BY <2>1, <1>7, <1>12, <1>13, <1>20
  <2>2. CASE h.held[s] # None
    <3> DEFINE b == Bottom (h, h.held[s])
    <3>1. k.next = [[h.next EXCEPT ![b] = o] EXCEPT ![c[q]] = None]
      BY <2>2, <1>7, <1>12
    <3>2. b # c[q] /\ b \in Mutable /\ c[q] \in Mutable
      BY <2>2, <1>2, <1>4, <1>5
    <3>3. [l.next EXCEPT ![Bottom (l, l.held[s])] = o] = [[h.next EXCEPT ![c[q]] = None] EXCEPT ![b] = o]
      BY <2>2, <1>13, <1>19
    <3> HIDE DEF b
    <3>4. [[h.next EXCEPT ![b] = o] EXCEPT ![c[q]] = None] = [[h.next EXCEPT ![c[q]] = None] EXCEPT ![b] = o]
      BY <3>2, <1>1
    <3>5. QED
      BY <2>2, <3>1, <3>3, <3>4, <1>20
  <2>3. QED
    BY <2>1, <2>2
<1>24. [p \in Item |-> IF p \in Elements (c, q) THEN s ELSE k.slot[p]] =
         [p \in Item |-> IF p \in Elements (c, q) THEN s ELSE l.slot[p]]
  BY <1>7, <1>12, <1>13
<1>25. Arrive (k, s, o, q) = LaidOn (l, c, s, q)
  BY <1>18, <1>21, <1>22, <1>23, <1>24 DEF LaidOn
<1>26. QED
  BY <1>2, <1>8, <1>17, <1>25 DEF l

-----------------------------------------------------------------------------
(* Heaps that differ in where shared items think they are. *)

Like (h, g) ==
  /\ g \in HeapType
  /\ g.held = h.held /\ g.count = h.count /\ g.next = h.next
  /\ \A p \in Mutable : g.slot[p] = h.slot[p]

LEMMA GoodSlot ==
  ASSUME ItemAssumption, NEW h, Good (h), NEW s \in Slot
  PROVE  /\ h \in HeapType /\ h.held[s] \in Item \cup {None} /\ h.count[s] \in Nat
         /\ h.held[s] = None <=> h.count[s] = 0
         /\ h.held[s] # None => h.count[s] <= MaxStack (h.held[s])
         /\ \A p \in Mutable : h.slot[p] = s => h.held[s] \in Mutable
<1>1. PICK c : Filed (h, c, s)
  BY DEF Good
<1>2. h \in HeapType
  BY DEF Good
<1>3. h.held[s] \in Item \cup {None} /\ h.count[s] \in Nat
  BY <1>2, HeapIs
<1>4. QED
  BY <1>1, <1>2, <1>3 DEF Filed

\* A slot that has no mutable items is filed by its count alone.
LEMMA SharedFiled ==
  ASSUME NEW h, NEW s \in Slot, h.held[s] \notin Mutable, h.held[s] = None <=> h.count[s] = 0,
         h.held[s] # None => h.count[s] <= MaxStack (h.held[s]),
         \A p \in Mutable : h.slot[p] # s
  PROVE  Filed (h, <<>>, s)
BY DEF Filed

LEMMA LikeGood ==
  ASSUME ItemAssumption, NEW h, Good (h), NEW g, Like (h, g)
  PROVE  /\ Good (g)
         /\ Free (g) = Free (h)
         /\ \A u \in Slot, j \in Kinds : Amount (g, u, j) = Amount (h, u, j)
         /\ \A u \in Slot : \A c : Filed (h, c, u) => Filed (g, c, u)
         /\ \A n \in Nat : \A c : Loose (h, c, n) => Loose (g, c, n)
<1>1. h \in HeapType /\ g \in HeapType
  BY DEF Good, Like
<1>2. ASSUME NEW u \in Slot, NEW c, Filed (h, c, u)
      PROVE  Filed (g, c, u)
  <2>1. g.held[u] = h.held[u] /\ g.count[u] = h.count[u]
    BY DEF Like
  <2>2. \A p \in Mutable : (h.slot[p] = u => g.next[p] = h.next[p]) /\ (g.slot[p] = u <=> h.slot[p] = u)
    BY DEF Like
  <2>3. QED
    BY <1>1, <1>2, <2>1, <2>2, FiledFrame
<1>3. Good (g)
  BY <1>1, <1>2 DEF Good
<1>4. Free (g) = Free (h)
  BY DEF Free, Like
<1>5. \A u \in Slot, j \in Kinds : Amount (g, u, j) = Amount (h, u, j)
  BY DEF Amount, Like
<1>6. ASSUME NEW c, NEW n \in Nat, Loose (h, c, n)
      PROVE  Loose (g, c, n)
  BY <1>6 DEF Loose, Chain, Like
<1>7. QED
  BY <1>2, <1>3, <1>4, <1>5, <1>6

\* A shared item is told that it is in slot s, or in none.
Told (h, o, s) == [h EXCEPT !.slot[o] = s]

LEMMA ToldIs ==
  ASSUME ItemAssumption, NEW h \in HeapType, NEW o \in Shared, NEW s \in Slot \cup {None}
  PROVE  /\ Like (h, Told (h, o, s))
         /\ Told (h, o, s).slot = [h.slot EXCEPT ![o] = s]
         /\ Told (h, o, s).slot[o] = s
<1>1. /\ h = Heap (h.held, h.count, h.next, h.slot) /\ h.held \in [Slot -> Item \cup {None}]
      /\ h.count \in [Slot -> Nat] /\ h.slot \in [Item -> Slot \cup {None}]
      /\ h.next \in [Mutable -> Mutable \cup {None}]
  BY HeapIs
<1>2. o \in Item /\ o \notin Mutable /\ Mutable \subseteq Item
  BY DEF ItemAssumption, Item
<1>3. Told (h, o, s) = Heap (h.held, h.count, h.next, [h.slot EXCEPT ![o] = s])
  BY <1>1 DEF Told, Heap
<1>4. [h.slot EXCEPT ![o] = s] \in [Item -> Slot \cup {None}]
  BY <1>1
<1>5. Told (h, o, s) \in HeapType
  BY <1>1, <1>3, <1>4, HeapMade
<1>6. /\ Told (h, o, s).held = h.held /\ Told (h, o, s).count = h.count
      /\ Told (h, o, s).next = h.next /\ Told (h, o, s).slot = [h.slot EXCEPT ![o] = s]
  BY <1>3 DEF Heap
<1>7. \A p \in Mutable : Told (h, o, s).slot[p] = h.slot[p]
  BY <1>1, <1>2, <1>6
<1>8. QED
  BY <1>1, <1>2, <1>5, <1>6, <1>7 DEF Like

LEMMA LikeItself ==
  ASSUME NEW h \in HeapType
  PROVE  Like (h, h)
BY DEF Like

LEMMA LikeTwice ==
  ASSUME NEW h, NEW g, NEW f, Like (h, g), Like (g, f)
  PROVE  Like (h, f)
BY DEF Like

LEMMA GetItemIs ==
  ASSUME ItemAssumption, NEW h, Good (h), NEW s \in Slot
  PROVE  /\ Like (h, GetItem (h, s))
         /\ h.held[s] # None => GetItem (h, s).slot[h.held[s]] = s
         /\ \A k \in Shared : k # h.held[s] => GetItem (h, s).slot[k] = h.slot[k]
<1>1. h \in HeapType
  BY DEF Good
<1>2. CASE h.held[s] \in Shared
  <2>1. GetItem (h, s) = Told (h, h.held[s], s)
    BY <1>2 DEF GetItem, Told
  <2>2. h.slot \in [Item -> Slot \cup {None}]
    BY <1>1, HeapIs
  <2> DEFINE o == h.held[s]
             g == Told (h, o, s)
  <2>3. Like (h, g) /\ g.slot = [h.slot EXCEPT ![o] = s] /\ g.slot[o] = s
    BY <1>1, <1>2, ToldIs
  <2> HIDE DEF g
  <2>4. \A k \in Shared : k # o => g.slot[k] = h.slot[k]
    BY <2>2, <2>3 DEF Item
  <2>5. QED
    BY <2>1, <2>3, <2>4 DEF g
<1>3. CASE h.held[s] \notin Shared
  <2>1. GetItem (h, s) = h
    BY <1>3 DEF GetItem
  <2>2. h.held[s] # None => h.held[s] \in Mutable
    BY <1>3, GoodSlot DEF Item
  <2>3. h.held[s] # None => h.slot[h.held[s]] = s
    <3>1. SUFFICES ASSUME h.held[s] # None PROVE h.slot[h.held[s]] = s
      OBVIOUS
    <3>2. PICK c : Filed (h, c, s)
      BY DEF Good
    <3>3. h.held[s] \in Mutable
      BY <2>2, <3>1
    <3>4. h.count[s] \in Nat \ {0} /\ h.held[s] = c[1] /\ \A i \in 1 .. h.count[s] : h.slot[c[i]] = s
      BY <3>2, <3>3, FiledItems
    <3>5. QED
      BY <3>4
  <2>4. Like (h, h)
    BY <1>1, LikeItself
  <2>5. QED
    BY <2>1, <2>3, <2>4
<1>4. QED
  BY <1>2, <1>3

-----------------------------------------------------------------------------
(* Shared items put into a slot and taken out of one. *)

SharedOn (h, o, s, n) ==
  Heap ([h.held EXCEPT ![s] = o], [h.count EXCEPT ![s] = h.count[s] + n], h.next, h.slot)

SharedOff (h, s, n) ==
  Heap ([h.held EXCEPT ![s] = IF n = h.count[s] THEN None ELSE h.held[s]],
        [h.count EXCEPT ![s] = h.count[s] - n], h.next, h.slot)

LEMMA OneSlotGood ==
  ASSUME ItemAssumption, NEW h, Good (h), NEW s \in Slot, NEW o \in Item \cup {None}, NEW m \in Nat,
         o \notin Mutable, h.held[s] \notin Mutable, o = None <=> m = 0, o # None => m <= MaxStack (o)
  PROVE  LET g == Heap ([h.held EXCEPT ![s] = o], [h.count EXCEPT ![s] = m], h.next, h.slot)
         IN  Good (g) /\ Free (g) = Free (h) /\ Frame (h, g)
<1> DEFINE g == Heap ([h.held EXCEPT ![s] = o], [h.count EXCEPT ![s] = m], h.next, h.slot)
<1>1. /\ h \in HeapType /\ h.held \in [Slot -> Item \cup {None}]
      /\ h.count \in [Slot -> Nat] /\ h.slot \in [Item -> Slot \cup {None}]
      /\ h.next \in [Mutable -> Mutable \cup {None}]
  BY HeapIs DEF Good
<1>2. /\ g.held = [h.held EXCEPT ![s] = o] /\ g.count = [h.count EXCEPT ![s] = m]
      /\ g.next = h.next /\ g.slot = h.slot
  BY DEF Heap
<1>3. g \in HeapType
  <2>1. [h.held EXCEPT ![s] = o] \in [Slot -> Item \cup {None}] /\ [h.count EXCEPT ![s] = m] \in [Slot -> Nat]
    BY <1>1
  <2>2. QED
    BY <1>1, <2>1, HeapMade
<1> HIDE DEF g
<1>4. ASSUME NEW u \in Slot
      PROVE  \E c : Filed (g, c, u)
  <2>1. CASE u = s
    <3>1. \A p \in Mutable : h.slot[p] # s
      BY GoodSlot
    <3>2. g.held[s] = o /\ g.count[s] = m
      BY <1>1, <1>2
    <3>3. Filed (g, <<>>, s)
      BY <1>2, <3>1, <3>2, SharedFiled
    <3>4. QED
      BY <2>1, <3>3
  <2>2. CASE u # s
    <3>1. PICK c : Filed (h, c, u)
      BY DEF Good
    <3>2. g.held[u] = h.held[u] /\ g.count[u] = h.count[u]
      BY <1>1, <1>2, <2>2
    <3>3. \A p \in Mutable : (h.slot[p] = u => g.next[p] = h.next[p]) /\ (g.slot[p] = u <=> h.slot[p] = u)
      BY <1>2
    <3>4. Filed (g, c, u)
      BY <1>1, <3>1, <3>2, <3>3, FiledFrame
    <3>5. QED
      BY <3>4
  <2>3. QED
    BY <2>1, <2>2
<1>5. Good (g)
  BY <1>3, <1>4 DEF Good
<1>6. Free (g) = Free (h) /\ Frame (h, g)
  BY <1>2 DEF Free, Frame
<1>7. QED
  BY <1>5, <1>6 DEF g

LEMMA AmountType ==
  ASSUME ItemAssumption, NEW h \in HeapType, NEW s \in Slot, NEW k
  PROVE  Amount (h, s, k) \in Nat
<1>1. h.count[s] \in Nat
  BY HeapIs
<1>2. QED
  BY <1>1 DEF Amount

LEMMA MovedTwice ==
  ASSUME ItemAssumption, NEW h \in HeapType, NEW g \in HeapType, NEW f \in HeapType,
         NEW s, NEW t, NEW k, NEW n \in Nat,
         None \notin Slot, Moved (h, g, None, t, k, n), Moved (g, f, s, None, k, n)
  PROVE  Moved (h, f, s, t, k, n)
<1>1. SUFFICES ASSUME NEW u \in Slot, NEW j \in Kinds
               PROVE  Amount (f, u, j) = Amount (h, u, j) + (IF u = s /\ j = k THEN n ELSE 0)
                         - (IF u = t /\ j = k THEN n ELSE 0)
  BY DEF Moved
<1>2. Amount (h, u, j) \in Nat /\ Amount (g, u, j) \in Nat /\ u # None
  BY AmountType
<1>3. Amount (g, u, j) = Amount (h, u, j) + (IF u = None /\ j = k THEN n ELSE 0)
                         - (IF u = t /\ j = k THEN n ELSE 0)
  BY DEF Moved
<1>4. Amount (f, u, j) = Amount (g, u, j) + (IF u = s /\ j = k THEN n ELSE 0)
                         - (IF u = None /\ j = k THEN n ELSE 0)
  BY DEF Moved
<1>5. QED
  BY <1>2, <1>3, <1>4

LEMMA MovedNothing ==
  ASSUME ItemAssumption, NEW h \in HeapType, NEW s, NEW k, NEW n \in Nat
  PROVE  Moved (h, h, s, s, k, n)
<1>1. \A u \in Slot : \A j \in Kinds : Amount (h, u, j) \in Nat
  BY AmountType
<1>2. QED
  BY <1>1 DEF Moved

LEMMA NoneMoved ==
  ASSUME ItemAssumption, NEW h \in HeapType, NEW s, NEW t, NEW k
  PROVE  Moved (h, h, s, t, k, 0)
<1>1. \A u \in Slot : \A j \in Kinds : Amount (h, u, j) \in Nat
  BY AmountType
<1>2. QED
  BY <1>1 DEF Moved

LEMMA FrameItself ==
  ASSUME NEW h
  PROVE  Frame (h, h)
BY DEF Frame

LEMMA SharedOffIs ==
  ASSUME ItemAssumption, NEW h, Good (h), NEW o \in Shared, NEW s \in Slot, h.held[s] = o,
         NEW n \in 1 .. h.count[s]
  PROVE  LET g == SharedOff (h, s, n)
         IN  /\ Good (g) /\ Free (g) = Free (h) /\ Frame (h, g)
             /\ Moved (h, g, None, s, o, n)
<1> DEFINE g == SharedOff (h, s, n)
           x == IF n = h.count[s] THEN None ELSE h.held[s]
           m == h.count[s] - n
<1>1. /\ h \in HeapType /\ h.held \in [Slot -> Item \cup {None}] /\ h.count \in [Slot -> Nat]
  BY HeapIs DEF Good
<1>2. o \notin Mutable /\ o # None /\ KindOf[o] = o /\ o \in Item /\ None \notin Slot /\ None \notin Mutable
  BY DEF ItemAssumption, Item
<1>3. h.count[s] \in Nat /\ h.count[s] <= MaxStack (o)
  BY <1>2, GoodSlot
<1>4. m \in Nat /\ x \in Item \cup {None} /\ x \notin Mutable /\ (x = None <=> m = 0) /\ MaxStack (o) \in Nat
      /\ (x # None => x = o)
  BY <1>1, <1>2, <1>3 DEF ItemAssumption, MaxStack, Item
<1>5. x # None => m <= MaxStack (x)
  BY <1>3, <1>4
<1>6. g = Heap ([h.held EXCEPT ![s] = x], [h.count EXCEPT ![s] = m], h.next, h.slot)
  BY DEF SharedOff
<1> HIDE DEF g, x, m
<1>7. Good (g) /\ Free (g) = Free (h) /\ Frame (h, g)
  BY <1>2, <1>4, <1>5, <1>6, OneSlotGood
<1>8. Moved (h, g, None, s, o, n)
  <2>1. ASSUME NEW u \in Slot, NEW j \in Kinds
        PROVE  Amount (g, u, j) = Amount (h, u, j) + (IF u = None /\ j = o THEN n ELSE 0)
                         - (IF u = s /\ j = o THEN n ELSE 0)
    <3>1. g.held[u] = (IF u = s THEN x ELSE h.held[u]) /\ g.count[u] = IF u = s THEN m ELSE h.count[u]
      BY <1>1, <1>6 DEF Heap
    <3>2. h.count[u] \in Nat /\ u # None
      BY <1>1, <1>2
    <3>3. CASE u = s
      <4>1. n = h.count[s] \/ x = o
        BY <1>2 DEF x
      <4>2. Amount (g, u, j) = IF x # None /\ o = j THEN m ELSE 0
        BY <3>1, <3>3, <1>2, <1>4 DEF Amount
      <4>3. Amount (h, u, j) = IF o = j THEN h.count[s] ELSE 0
        BY <3>3, <1>2 DEF Amount
      <4>4. m = h.count[s] - n /\ (x = None => m = 0)
        BY <1>4 DEF m
      <4>5. QED
        BY <3>2, <3>3, <4>2, <4>3, <4>4, <1>3
    <3>4. CASE u # s
      BY <3>1, <3>2, <3>4 DEF Amount
    <3>5. QED
      BY <3>3, <3>4
  <2>2. QED
    BY <2>1 DEF Moved
<1>9. QED
  BY <1>7, <1>8 DEF g

LEMMA SharedOnIs ==
  ASSUME ItemAssumption, NEW h, Good (h), NEW o \in Shared, NEW s \in Slot, h.held[s] \in {None, o},
         NEW n \in Nat \ {0}, h.count[s] + n <= MaxStack (o)
  PROVE  LET g == SharedOn (h, o, s, n)
         IN  /\ Good (g) /\ Free (g) = Free (h) /\ Frame (h, g)
             /\ Moved (h, g, s, None, o, n)
<1> DEFINE g == SharedOn (h, o, s, n)
           m == h.count[s] + n
<1>1. /\ h \in HeapType /\ h.held \in [Slot -> Item \cup {None}] /\ h.count \in [Slot -> Nat]
  BY HeapIs DEF Good
<1>2. o \notin Mutable /\ o # None /\ KindOf[o] = o /\ o \in Item /\ None \notin Slot /\ None \notin Mutable
  BY DEF ItemAssumption, Item
<1>3. m \in Nat /\ m # 0 /\ m <= MaxStack (o)
  BY <1>1
<1>4. g = Heap ([h.held EXCEPT ![s] = o], [h.count EXCEPT ![s] = m], h.next, h.slot)
  BY DEF SharedOn
<1>5. h.held[s] = None => h.count[s] = 0
  BY GoodSlot
<1> HIDE DEF g
<1>6. Good (g) /\ Free (g) = Free (h) /\ Frame (h, g)
  <2> HIDE DEF m
  <2>1. QED
    BY <1>2, <1>3, <1>4, OneSlotGood
<1>7. Moved (h, g, s, None, o, n)
  <2>1. ASSUME NEW u \in Slot, NEW j \in Kinds
        PROVE  Amount (g, u, j) = Amount (h, u, j) + (IF u = s /\ j = o THEN n ELSE 0)
                         - (IF u = None /\ j = o THEN n ELSE 0)
    <3>1. g.held[u] = (IF u = s THEN o ELSE h.held[u]) /\ g.count[u] = IF u = s THEN m ELSE h.count[u]
      BY <1>1, <1>4 DEF Heap
    <3>2. h.count[u] \in Nat /\ u # None
      BY <1>1, <1>2
    <3>3. CASE u = s
      <4>1. Amount (g, u, j) = IF o = j THEN m ELSE 0
        BY <3>1, <3>3, <1>2 DEF Amount
      <4>2. Amount (h, u, j) = IF o = j THEN h.count[s] ELSE 0
        BY <3>3, <1>2, <1>5 DEF Amount
      <4>3. QED
        BY <3>2, <3>3, <4>1, <4>2
    <3>4. CASE u # s
      BY <3>1, <3>2, <3>4 DEF Amount
    <3>5. QED
      BY <3>3, <3>4
  <2>2. QED
    BY <2>1 DEF Moved
<1>8. QED
  BY <1>6, <1>7 DEF g

\* Where n items o come from: slot t, or none.
Source (h, o, n, t) ==
  IF t = None THEN h.slot[o] = None /\ (o \in Mutable => n = 1 /\ h.next[o] = None)
  ELSE t \in Slot /\ h.held[t] = o /\ h.slot[o] = t /\ n <= h.count[t]

\* How many of n items o slot s takes.
Takes (h, s, o, n) ==
  IF n = 0 \/ (h.held[s] # None /\ h.slot[o] = s) THEN n
  ELSE IF h.held[s] # None /\ ~ Same (h.held[s], o) THEN 0
  ELSE Least (MaxStack (o) - h.count[s], n)

\* g is h after m items o came from t to s.
Added (h, g, s, t, o, m) ==
  /\ Good (g)
  /\ Moved (h, g, s, t, KindOf[o], m)
  /\ Frame (h, g)
  /\ m = 0 => g = h
  /\ Free (g) = IF o \in Mutable /\ t = None /\ m > 0 THEN Free (h) \ {o} ELSE Free (h)

LEMMA LikeOfShared ==
  ASSUME ItemAssumption, NEW o \in Shared, NEW p \in Item, KindOf[p] = KindOf[o]
  PROVE  p = o
BY DEF ItemAssumption, Item

LEMMA AddSharedIs ==
  ASSUME ItemAssumption, NEW h, Good (h), NEW s \in Slot, NEW o \in Shared, NEW n \in Nat \ {0},
         NEW t, t # s, Source (h, o, n, t), h.held[s] \in {None, o},
         NEW q \in Nat \ {0}, q = Least (MaxStack (o) - h.count[s], n)
  PROVE  AddItems (h, s, o, n) =
           [heap |-> SharedOn (IF t = None THEN h ELSE SharedOff (h, t, q), o, s, q), rest |-> n - q]
<1> DEFINE g == Ready (h, s, o)
           k == IF t = None THEN g ELSE SharedOff (g, t, q)
           f == IF t = None THEN h ELSE SharedOff (h, t, q)
<1>1. /\ h \in HeapType /\ h.held \in [Slot -> Item \cup {None}] /\ h.count \in [Slot -> Nat]
      /\ h = Heap (h.held, h.count, h.next, h.slot)
  BY HeapIs DEF Good
<1>2. o \notin Mutable /\ o # None /\ KindOf[o] = o /\ o \in Item /\ None \notin Slot /\ MaxStack (o) \in Nat
  BY DEF ItemAssumption, Item, MaxStack
<1>3. q <= n /\ q <= MaxStack (o) - h.count[s]
  BY <1>1, <1>2 DEF Least
<1>4. h.slot[o] = t /\ (t # None => t \in Slot /\ h.held[t] = o /\ n <= h.count[t])
  BY DEF Source
<1>5. g = Heap ([h.held EXCEPT ![s] = o], h.count, h.next, h.slot)
  <2>1. CASE h.held[s] = None
    <3>1. g = [h EXCEPT !.held[s] = o]
      BY <2>1 DEF Ready
    <3>2. QED
      BY <1>1, <3>1 DEF Heap
  <2>2. CASE h.held[s] = o
    <3>1. g = h
      BY <2>2, <1>2 DEF Ready
    <3>2. [h.held EXCEPT ![s] = o] = h.held
      BY <1>1, <2>2
    <3>3. QED
      BY <1>1, <3>1, <3>2
  <2>3. QED
    BY <2>1, <2>2
<1>6. AddItems (h, s, o, n) = Take (g, s, o, n)
  <2>1. ~ (n = 0 \/ (h.held[s] # None /\ h.slot[o] = s))
    BY <1>4
  <2>2. ~ (n > 0 /\ h.held[s] # None /\ h.slot[o] # s
              /\ (h.count[s] >= MaxStack (h.held[s]) \/ ~ Same (h.held[s], o)))
    <3>1. h.held[s] # None => MaxStack (h.held[s]) = MaxStack (o) /\ Same (h.held[s], o)
      BY DEF Same
    <3>2. ~ h.count[s] >= MaxStack (o)
      BY <1>1, <1>2, <1>3
    <3>3. QED
      BY <3>1, <3>2
  <2> HIDE DEF g
  <2>3. QED
    BY <2>1, <2>2 DEF AddItems, g
<1> HIDE DEF g
<1>7. /\ g.held = [h.held EXCEPT ![s] = o] /\ g.count = h.count /\ g.next = h.next /\ g.slot = h.slot
      /\ g = Heap (g.held, g.count, g.next, g.slot)
  BY <1>5 DEF Heap
<1>8. Fitting (g, s, o, n) = q
  BY <1>7 DEF Fitting, Least
<1>9. TakeFrom (g, o, q) = [heap |-> k, rest |-> 0]
  <2>1. CASE t = None
    BY <2>1, <1>4, <1>7 DEF TakeFrom
  <2>2. CASE t # None
    <3>1. TakeFrom (g, o, q) = RemoveItems (g, t, o, q)
      BY <2>2, <1>4, <1>7 DEF TakeFrom
    <3>2. g.held[t] = o /\ g.count[t] = h.count[t] /\ h.count[t] \in Nat /\ q <= h.count[t] /\ t \in Slot
      BY <2>2, <1>1, <1>3, <1>4, <1>7
    <3>3. RemoveItems (g, t, o, q) = RemoveTop (g, t, o, q)
      BY <3>2 DEF RemoveItems
    <3> DEFINE gone == IF g.count[t] > q THEN q ELSE g.count[t]
               less == [g EXCEPT !.count[t] = @ - gone]
    <3>4. gone = q
      BY <3>2
    <3>5. less = Heap (g.held, [g.count EXCEPT ![t] = g.count[t] - q], g.next, g.slot)
      BY <1>7, <3>4 DEF Heap
    <3>6. RemoveTop (g, t, o, q) =
            [heap |-> [less EXCEPT !.held[t] = IF less.count[t] = 0 THEN None ELSE o], rest |-> q - gone]
      BY <1>2 DEF RemoveTop
    <3> HIDE DEF less, gone
    <3>7. less.count[t] = g.count[t] - q /\ less.held = g.held
      BY <3>2, <3>5, <1>1, <1>7 DEF Heap
    <3>8. less.count[t] = 0 <=> q = g.count[t]
      BY <3>2, <3>7
    <3>9. [less EXCEPT !.held[t] = IF less.count[t] = 0 THEN None ELSE o] =
            Heap ([g.held EXCEPT ![t] = IF less.count[t] = 0 THEN None ELSE o],
                  [g.count EXCEPT ![t] = g.count[t] - q], g.next, g.slot)
      BY <3>5 DEF Heap
    <3>10. k = Heap ([g.held EXCEPT ![t] = IF less.count[t] = 0 THEN None ELSE o],
                  [g.count EXCEPT ![t] = g.count[t] - q], g.next, g.slot)
      BY <2>2, <3>2, <3>8 DEF SharedOff
    <3>11. q - gone = 0
      BY <3>4
    <3>12. QED
      BY <3>1, <3>3, <3>6, <3>9, <3>10, <3>11
  <2>3. QED
    BY <2>1, <2>2
<1>10. Take (g, s, o, n) = [heap |-> Arrive (k, s, o, q), rest |-> n - q]
  <2> HIDE DEF k
  <2>1. Take (g, s, o, n) = [heap |-> Arrive (k, s, o, q - 0), rest |-> n - (q - 0)]
    BY <1>8, <1>9 DEF Take
  <2>2. q - 0 = q
    OBVIOUS
  <2>3. QED
    BY <2>1, <2>2
<1>11. Arrive (k, s, o, q) = [k EXCEPT !.count[s] = @ + q]
  BY <1>2 DEF Arrive
<1>12. [k EXCEPT !.count[s] = @ + q] = SharedOn (f, o, s, q)
  <2>1. CASE t = None
    <3>1. k = Heap ([h.held EXCEPT ![s] = o], h.count, h.next, h.slot) /\ f = h
      BY <2>1, <1>5
    <3>2. QED
      BY <3>1 DEF SharedOn, Heap
  <2>2. CASE t # None
    <3> DEFINE x == IF q = h.count[t] THEN None ELSE o
               m == h.count[t] - q
    <3>1. g.held[t] = o /\ h.held[t] = o /\ g.count = h.count /\ t \in Slot
      BY <2>2, <1>1, <1>4, <1>7
    <3>2. k = Heap ([g.held EXCEPT ![t] = x], [h.count EXCEPT ![t] = m], h.next, h.slot)
      BY <2>2, <3>1, <1>7 DEF SharedOff
    <3>3. f = Heap ([h.held EXCEPT ![t] = x], [h.count EXCEPT ![t] = m], h.next, h.slot)
      BY <2>2, <3>1 DEF SharedOff
    <3> HIDE DEF x, m
    <3>4. [g.held EXCEPT ![t] = x] = [[h.held EXCEPT ![t] = x] EXCEPT ![s] = o]
      BY <1>1, <1>7
    <3>5. [k EXCEPT !.count[s] = @ + q] =
            Heap ([g.held EXCEPT ![t] = x],
                  [[h.count EXCEPT ![t] = m] EXCEPT ![s] = [h.count EXCEPT ![t] = m][s] + q], h.next, h.slot)
      BY <3>2 DEF Heap
    <3>6. SharedOn (f, o, s, q) =
            Heap ([[h.held EXCEPT ![t] = x] EXCEPT ![s] = o],
                  [[h.count EXCEPT ![t] = m] EXCEPT ![s] = [h.count EXCEPT ![t] = m][s] + q], h.next, h.slot)
      BY <3>3 DEF SharedOn, Heap
    <3>7. QED
      BY <3>4, <3>5, <3>6
  <2>3. QED
    BY <2>1, <2>2
<1>13. QED
  BY <1>6, <1>10, <1>11, <1>12 DEF f

\* slot::add of shared items of which the slot takes some.
LEMMA AddShared ==
  ASSUME ItemAssumption, NEW h, Good (h), NEW s \in Slot, NEW o \in Shared, NEW n \in Nat \ {0},
         NEW t \in Slot \cup {None}, t # s, Source (h, o, n, t), h.held[s] \in {None, o},
         NEW q \in Nat \ {0}, q = Least (MaxStack (o) - h.count[s], n)
  PROVE  \E g : AddItems (h, s, o, n) = [heap |-> g, rest |-> n - q] /\ Added (h, g, s, t, o, q)
<1> DEFINE f == IF t = None THEN h ELSE SharedOff (h, t, q)
           g == SharedOn (f, o, s, q)
<1>1. /\ h \in HeapType /\ h.held \in [Slot -> Item \cup {None}] /\ h.count \in [Slot -> Nat]
  BY HeapIs DEF Good
<1>2. o \notin Mutable /\ KindOf[o] = o /\ None \notin Slot /\ MaxStack (o) \in Nat
  BY DEF ItemAssumption, Item, MaxStack
<1>3. q <= n /\ q <= MaxStack (o) - h.count[s]
  BY <1>1, <1>2 DEF Least
<1>4. AddItems (h, s, o, n) = [heap |-> g, rest |-> n - q]
  BY AddSharedIs
<1>5. /\ Good (f) /\ Free (f) = Free (h) /\ Frame (h, f) /\ Moved (h, f, None, t, o, q)
      /\ f.held[s] = h.held[s] /\ f.count[s] = h.count[s]
  <2>1. CASE t = None
    <3>1. Moved (h, h, None, None, o, q)
      BY <1>1, MovedNothing
    <3>2. QED
      BY <2>1, <3>1, FrameItself
  <2>2. CASE t # None
    <3>1. t \in Slot /\ h.held[t] = o /\ q \in 1 .. h.count[t]
      BY <2>2, <1>1, <1>3 DEF Source
    <3> DEFINE k == SharedOff (h, t, q)
    <3>2. Good (k) /\ Free (k) = Free (h) /\ Frame (h, k) /\ Moved (h, k, None, t, o, q)
      BY <3>1, SharedOffIs
    <3>3. k.held[s] = h.held[s] /\ k.count[s] = h.count[s]
      BY <3>1, <1>1 DEF SharedOff, Heap
    <3> HIDE DEF k
    <3>4. f = k
      BY <2>2 DEF k
    <3>5. QED
      BY <3>2, <3>3, <3>4
  <2>3. QED
    BY <2>1, <2>2
<1> HIDE DEF f
<1>6. Good (g) /\ Free (g) = Free (f) /\ Frame (f, g) /\ Moved (f, g, s, None, o, q)
  <2>1. f.count[s] + q <= MaxStack (o)
    BY <1>1, <1>2, <1>3, <1>5
  <2>2. f.held[s] \in {None, o}
    BY <1>5
  <2>3. QED
    BY <2>1, <2>2, <1>5, SharedOnIs
<1> HIDE DEF g
<1>7. f \in HeapType /\ g \in HeapType
  BY <1>5, <1>6 DEF Good
<1>8. Moved (h, g, s, t, KindOf[o], q)
  BY <1>1, <1>2, <1>5, <1>6, <1>7, MovedTwice
<1>9. Frame (h, g)
  BY <1>5, <1>6 DEF Frame
<1>10. Added (h, g, s, t, o, q)
  BY <1>2, <1>5, <1>6, <1>8, <1>9 DEF Added
<1>11. QED
  BY <1>4, <1>10

\* slot::add of mutable items of another slot.
LEMMA AddFiled ==
  ASSUME ItemAssumption, NEW h, Good (h), NEW s \in Slot, NEW o \in Mutable, NEW n \in Nat \ {0},
         NEW t \in Slot, t # s, Source (h, o, n, t),
         h.held[s] # None => h.held[s] \in Mutable /\ KindOf[h.held[s]] = KindOf[o],
         NEW q \in Nat \ {0}, q = Least (MaxStack (o) - h.count[s], n)
  PROVE  \E g : AddItems (h, s, o, n) = [heap |-> g, rest |-> n - q] /\ Added (h, g, s, t, o, q)
<1>1. /\ h \in HeapType /\ h.held \in [Slot -> Item \cup {None}] /\ h.count \in [Slot -> Nat]
  BY HeapIs DEF Good
<1>2. None \notin Slot /\ MaxStack (o) \in Nat
  BY DEF ItemAssumption, Item, MaxStack
<1>3. q <= n /\ q <= MaxStack (o) - h.count[s]
  BY <1>1, <1>2 DEF Least
<1>4. h.held[t] = o /\ h.slot[o] = t /\ n <= h.count[t]
  BY <1>2 DEF Source
<1>5. n \in 1 .. h.count[t] /\ q \in 1 .. h.count[t]
  BY <1>1, <1>3, <1>4
<1>6. PICK c : Filed (h, c, t)
  BY DEF Good
<1>7. h.held[t] = c[1]
  <2>1. h.held[t] \in Mutable
    BY <1>4
  <2>2. QED
    BY <2>1, <1>6, FiledItems
<1> DEFINE f == TakenOff (h, c, t, q)
           g == LaidOn (f, c, s, q)
<1>8. AddItems (h, s, o, n) = [heap |-> g, rest |-> n - q]
  <2>1. h.held[t] \in Mutable /\ MaxStack (h.held[t]) = MaxStack (o)
    BY <1>4
  <2>2. q = Least (MaxStack (h.held[t]) - h.count[s], n)
    BY <2>1
  <2>3. h.held[s] # None => h.held[s] \in Mutable /\ KindOf[h.held[s]] = KindOf[h.held[t]]
    BY <1>4
  <2>4. AddItems (h, s, h.held[t], n) = [heap |-> g, rest |-> n - q]
    BY <1>5, <1>6, <2>1, <2>2, <2>3, AddFiledIs
  <2>5. QED
    BY <1>4, <2>4
<1>9. /\ Good (f) /\ Loose (f, c, q) /\ Moved (h, f, None, t, KindOf[o], q)
      /\ Free (f) = Free (h) \cup Elements (c, q) /\ Frame (h, f)
  BY <1>4, <1>5, <1>6, TakenOffGood
<1>10. f.held[s] = h.held[s] /\ f.count[s] = h.count[s]
  BY <1>1 DEF TakenOff, Heap
<1> HIDE DEF f
<1>11. /\ Good (g) /\ Moved (f, g, s, None, KindOf[c[1]], q)
       /\ Free (g) = Free (f) \ Elements (c, q) /\ Frame (f, g)
  <2>1. f.held[s] # None => f.held[s] \in Mutable /\ KindOf[f.held[s]] = KindOf[c[1]]
    BY <1>4, <1>7, <1>10
  <2>2. f.count[s] + q <= MaxStack (c[1])
    BY <1>1, <1>2, <1>3, <1>4, <1>7, <1>10
  <2>3. QED
    BY <1>9, <2>1, <2>2, LaidOnGood
<1> HIDE DEF g
<1>12. \A i \in 1 .. h.count[t] : c[i] \in Mutable /\ h.slot[c[i]] = t
  <2>1. h.held[t] \in Mutable
    BY <1>4
  <2>2. QED
    BY <2>1, <1>6, FiledItems
<1>13. Free (g) = Free (h)
  <2>1. \A p \in Elements (c, q) : h.slot[p] = t
    BY <1>1, <1>5, <1>12 DEF Elements
  <2>2. \A p \in Elements (c, q) : p \notin Free (h)
    BY <1>2, <2>1 DEF Free
  <2>3. QED
    BY <1>9, <1>11, <2>2
<1>14. f \in HeapType /\ g \in HeapType
  BY <1>9, <1>11 DEF Good
<1>15. Moved (h, g, s, t, KindOf[o], q)
  <2>1. Moved (f, g, s, None, KindOf[o], q)
    BY <1>4, <1>7, <1>11
  <2>2. QED
    BY <2>1, <1>1, <1>2, <1>9, <1>14, MovedTwice
<1>16. Frame (h, g)
  <2>1. ASSUME NEW p \in Free (h) \cap Free (g)
        PROVE  g.next[p] = h.next[p]
    <3>1. p \in Free (f)
      BY <1>9
    <3>2. QED
      BY <3>1, <1>9, <1>11 DEF Frame
  <2>2. \A k \in Shared : g.slot[k] = h.slot[k]
    BY <1>9, <1>11 DEF Frame
  <2>3. QED
    BY <2>1, <2>2 DEF Frame
<1>17. Added (h, g, s, t, o, q)
  BY <1>2, <1>11, <1>13, <1>15, <1>16 DEF Added
<1>18. QED
  BY <1>8, <1>17

\* slot::add of a mutable item that is in no slot.
LEMMA AddLoose ==
  ASSUME ItemAssumption, NEW h, Good (h), NEW s \in Slot, NEW o \in Mutable,
         h.slot[o] = None, h.next[o] = None,
         h.held[s] # None => h.held[s] \in Mutable /\ KindOf[h.held[s]] = KindOf[o],
         h.count[s] + 1 <= MaxStack (o)
  PROVE  \E g : AddItems (h, s, o, 1) = [heap |-> g, rest |-> 0] /\ Added (h, g, s, None, o, 1)
<1> DEFINE c == <<o>>
           g == LaidOn (h, c, s, 1)
<1>1. c[1] = o /\ \A i \in 1 .. 1 : i = 1
  OBVIOUS
<1> HIDE DEF c
<1>2. Loose (h, c, 1)
  <2>1. \A i \in 1 .. 1 : c[i] = o /\ i = 1
    BY <1>1
  <2>2. Chain (h, c, 1)
    <3>1. \A i \in 1 .. 1 : h.next[c[i]] = IF i = 1 THEN None ELSE c[i + 1]
      BY <2>1
    <3>2. \A i \in 1 .. 1 : c[i] \in Mutable
      BY <2>1
    <3>3. \A i, j \in 1 .. 1 : c[i] = c[j] => i = j
      OBVIOUS
    <3>4. QED
      BY <3>1, <3>2, <3>3 DEF Chain
  <2>3. QED
    BY <2>1, <2>2 DEF Loose
<1>3. 1 \in Nat \ {0}
  OBVIOUS
<1>4. AddItems (h, s, o, 1) = [heap |-> g, rest |-> 0]
  <2>1. h.held[s] # None => h.held[s] \in Mutable /\ KindOf[h.held[s]] = KindOf[c[1]]
    BY <1>1
  <2>2. h.count[s] + 1 <= MaxStack (c[1])
    BY <1>1
  <2>3. AddItems (h, s, c[1], 1) = [heap |-> g, rest |-> 0]
    BY <1>2, <1>3, <2>1, <2>2, AddLooseIs
  <2>4. QED
    BY <1>1, <2>3
<1>5. /\ Good (g) /\ Moved (h, g, s, None, KindOf[o], 1)
      /\ Free (g) = Free (h) \ Elements (c, 1) /\ Frame (h, g)
  <2>1. h.held[s] # None => h.held[s] \in Mutable /\ KindOf[h.held[s]] = KindOf[c[1]]
    BY <1>1
  <2>2. h.count[s] + 1 <= MaxStack (c[1])
    BY <1>1
  <2>3. /\ Good (g) /\ Moved (h, g, s, None, KindOf[c[1]], 1)
        /\ Free (g) = Free (h) \ Elements (c, 1) /\ Frame (h, g)
    BY <1>2, <1>3, <2>1, <2>2, LaidOnGood
  <2>4. QED
    BY <1>1, <2>3
<1>6. Elements (c, 1) = {o}
  BY <1>1 DEF Elements
<1> HIDE DEF g
<1>7. Added (h, g, s, None, o, 1)
  BY <1>5, <1>6 DEF Added
<1>8. QED
  BY <1>4, <1>7

LEMMA TakesAtMost ==
  ASSUME ItemAssumption, NEW h, Good (h), NEW s \in Slot, NEW o \in Item, NEW n \in Nat
  PROVE  Takes (h, s, o, n) \in 0 .. n
<1>1. h.count[s] \in Nat /\ MaxStack (o) \in Nat
  BY GoodSlot DEF ItemAssumption, MaxStack, Item
<1>2. h.held[s] # None /\ Same (h.held[s], o) => h.count[s] <= MaxStack (o)
  <2>1. Same (h.held[s], o) => MaxStack (h.held[s]) = MaxStack (o)
    BY DEF Same, MaxStack
  <2>2. QED
    BY <2>1, GoodSlot
<1>3. h.held[s] = None => h.count[s] = 0
  BY GoodSlot
<1>4. CASE n = 0 \/ (h.held[s] # None /\ h.slot[o] = s)
  BY <1>4 DEF Takes
<1>5. CASE ~ (n = 0 \/ (h.held[s] # None /\ h.slot[o] = s))
  <2>1. CASE h.held[s] # None /\ ~ Same (h.held[s], o)
    BY <2>1, <1>5 DEF Takes
  <2>2. CASE ~ (h.held[s] # None /\ ~ Same (h.held[s], o))
    <3>1. h.count[s] <= MaxStack (o)
      BY <1>1, <1>2, <1>3, <2>2
    <3>2. Takes (h, s, o, n) = Least (MaxStack (o) - h.count[s], n)
      BY <1>5, <2>2 DEF Takes
    <3>3. QED
      BY <1>1, <3>1, <3>2 DEF Least
  <2>3. QED
    BY <2>1, <2>2
<1>6. QED
  BY <1>4, <1>5

\* slot::add of items that are where they say adds as many as fit.
LEMMA AddItemsAdds ==
  ASSUME ItemAssumption, NEW h, Good (h), NEW s \in Slot, NEW o \in Item, NEW n \in Nat,
         NEW t \in Slot \cup {None}, n > 0 => Source (h, o, n, t)
  PROVE  \E g : /\ AddItems (h, s, o, n) = [heap |-> g, rest |-> n - Takes (h, s, o, n)]
                /\ Added (h, g, s, t, o, Takes (h, s, o, n))
<1> DEFINE q == Takes (h, s, o, n)
<1>1. /\ h \in HeapType /\ h.held \in [Slot -> Item \cup {None}] /\ h.count \in [Slot -> Nat]
  BY HeapIs DEF Good
<1>2. None \notin Slot /\ MaxStack (o) \in Nat \ {0} /\ MaxStack (o) \in Nat
  BY DEF ItemAssumption, Item, MaxStack
<1>3. q \in 0 .. n
  BY TakesAtMost
<1>4. Added (h, h, s, t, o, 0)
  <2>1. Moved (h, h, s, t, KindOf[o], 0)
    BY <1>1, NoneMoved
  <2>2. QED
    BY <2>1, FrameItself DEF Added
<1>5. CASE n = 0
  <2>1. q = 0
    BY <1>3, <1>5
  <2>2. AddItems (h, s, o, n) = [heap |-> h, rest |-> n - q]
    BY <1>5, <2>1 DEF AddItems
  <2>3. QED
    BY <1>4, <2>1, <2>2
<1>6. CASE n # 0 /\ h.held[s] # None /\ h.slot[o] = s
  <2>1. q = n /\ n - q = 0 /\ n > 0
    BY <1>6 DEF Takes
  <2>2. AddItems (h, s, o, n) = [heap |-> h, rest |-> n - q]
    BY <1>6, <2>1 DEF AddItems
  <2>3. t = s
    BY <1>2, <1>6, <2>1 DEF Source
  <2>4. Moved (h, h, s, t, KindOf[o], n)
    BY <1>1, <2>3, MovedNothing
  <2>5. Added (h, h, s, t, o, n)
    BY <1>2, <1>6, <2>3, <2>4, FrameItself DEF Added
  <2>6. QED
    BY <2>1, <2>2, <2>5
<1>7. CASE n # 0 /\ ~ (h.held[s] # None /\ h.slot[o] = s) /\ h.held[s] # None
           /\ (~ Same (h.held[s], o) \/ h.count[s] >= MaxStack (o))
  <2>1. Same (h.held[s], o) => MaxStack (h.held[s]) = MaxStack (o)
    BY DEF Same, MaxStack
  <2>2. q = 0
    <3>1. CASE ~ Same (h.held[s], o)
      BY <1>7, <3>1 DEF Takes
    <3>2. CASE Same (h.held[s], o)
      <4>1. q = Least (MaxStack (o) - h.count[s], n)
        BY <1>7, <3>2 DEF Takes
      <4>2. h.count[s] = MaxStack (o)
        BY <1>7, <1>1, <1>2, <2>1, <3>2, GoodSlot
      <4>3. QED
        BY <1>2, <1>7, <4>1, <4>2 DEF Least
    <3>3. QED
      BY <3>1, <3>2
  <2>3. n > 0 /\ n - q = n
    BY <1>7, <2>2
  <2>4. h.count[s] >= MaxStack (h.held[s]) \/ ~ Same (h.held[s], o)
    BY <1>7, <2>1
  <2> HIDE DEF q
  <2>5. AddItems (h, s, o, n) = [heap |-> h, rest |-> n - q]
    BY <1>7, <2>3, <2>4 DEF AddItems
  <2>6. QED
    BY <1>4, <2>2, <2>5 DEF q
<1>8. CASE n # 0 /\ ~ (h.held[s] # None /\ h.slot[o] = s)
           /\ (h.held[s] # None => Same (h.held[s], o) /\ ~ h.count[s] >= MaxStack (o))
  <2>1. q = Least (MaxStack (o) - h.count[s], n)
    BY <1>8 DEF Takes
  <2>2. h.held[s] = None => h.count[s] = 0
    BY GoodSlot
  <2>3. q \in Nat \ {0} /\ n \in Nat \ {0} /\ Source (h, o, n, t)
    BY <1>1, <1>2, <1>8, <2>1, <2>2 DEF Least
  <2>4. t # s
    <3>1. t = s => h.held[s] = o /\ h.slot[o] = s /\ o # None
      BY <1>2, <2>3 DEF Source, ItemAssumption, Item
    <3>2. QED
      BY <3>1, <1>8
  <2>5. CASE o \in Shared
    <3>1. h.held[s] \in {None, o}
      <4>1. h.held[s] # None => h.held[s] \in Item /\ KindOf[h.held[s]] = KindOf[o]
        BY <1>1, <1>8 DEF Same
      <4>2. QED
        BY <4>1, <2>5, LikeOfShared
    <3> HIDE DEF q
    <3>2. \E g : AddItems (h, s, o, n) = [heap |-> g, rest |-> n - q] /\ Added (h, g, s, t, o, q)
      BY <2>1, <2>3, <2>4, <2>5, <3>1, AddShared
    <3>3. QED
      BY <3>2 DEF q
  <2>6. CASE o \in Mutable
    <3>1. h.held[s] # None => h.held[s] \in Mutable /\ KindOf[h.held[s]] = KindOf[o]
      <4>1. SUFFICES ASSUME h.held[s] # None
                     PROVE  h.held[s] \in Mutable /\ KindOf[h.held[s]] = KindOf[o]
        OBVIOUS
      <4>2. h.held[s] \in Item /\ KindOf[h.held[s]] = KindOf[o]
        BY <1>1, <1>8, <4>1 DEF Same
      <4>3. h.held[s] \notin Shared
        BY <2>6, <4>2 DEF ItemAssumption
      <4>4. QED
        BY <4>2, <4>3 DEF Item
    <3>2. CASE t = None
      <4>1. h.slot[o] = None /\ n = 1 /\ h.next[o] = None
        BY <2>3, <2>6, <3>2 DEF Source
      <4>2. q = 1 /\ h.count[s] + 1 <= MaxStack (o)
        BY <1>1, <1>2, <2>1, <2>3, <4>1 DEF Least
      <4>3. \E g : AddItems (h, s, o, 1) = [heap |-> g, rest |-> 0] /\ Added (h, g, s, None, o, 1)
        BY <2>6, <3>1, <4>1, <4>2, AddLoose
      <4>4. n - q = 0
        BY <4>1, <4>2
      <4>5. QED
        BY <3>2, <4>1, <4>2, <4>3, <4>4
    <3>3. CASE t # None
      <4> HIDE DEF q
      <4>1. t \in Slot
        BY <3>3
      <4>2. \E g : AddItems (h, s, o, n) = [heap |-> g, rest |-> n - q] /\ Added (h, g, s, t, o, q)
        BY <2>1, <2>3, <2>4, <2>6, <3>1, <4>1, AddFiled
      <4>3. QED
        BY <4>2 DEF q
    <3>4. QED
      BY <3>2, <3>3
  <2>7. QED
    BY <2>5, <2>6 DEF Item
<1>9. QED
  BY <1>5, <1>6, <1>7, <1>8

\* What was not added is still where it was.
LEMMA SourceStays ==
  ASSUME ItemAssumption, NEW h, Good (h), NEW s \in Slot, NEW o \in Item, NEW n \in Nat,
         NEW t \in Slot \cup {None}, Source (h, o, n, t), o \in Mutable => n = 1,
         NEW q \in 0 .. n - 1, NEW g, Added (h, g, s, t, o, q)
  PROVE  Source (g, o, n - q, t)
<1>1. h \in HeapType /\ g \in HeapType /\ Good (g)
  BY DEF Good, Added
<1>2. CASE o \in Mutable
  <2>1. q = 0 /\ n = 1 /\ n - q = 1
    BY <1>2
  <2>2. g = h
    BY <2>1 DEF Added
  <2>3. QED
    BY <2>1, <2>2
<1>3. CASE o \in Shared
  <2>1. o \notin Mutable /\ KindOf[o] = o /\ o # None
    BY <1>3 DEF ItemAssumption, Item
  <2>2. g.slot[o] = h.slot[o]
    BY <1>3 DEF Added, Frame
  <2>3. CASE t = None
    BY <2>1, <2>2, <2>3 DEF Source
  <2>4. CASE t # None
    <3>1. t \in Slot /\ h.held[t] = o /\ h.slot[o] = t /\ n <= h.count[t]
      BY <2>4 DEF Source
    <3>2. o \in Kinds
      BY <2>1 DEF Kinds
    <3>3. Amount (h, t, o) = h.count[t] /\ h.count[t] \in Nat /\ g.count[t] \in Nat
      BY <1>1, <2>1, <3>1, HeapIs DEF Amount
    <3>4. Amount (g, t, o) = Amount (h, t, o) + (IF t = s /\ o = o THEN q ELSE 0)
                         - (IF t = t /\ o = o THEN q ELSE 0)
      BY <2>1, <3>1, <3>2 DEF Added, Moved
    <3>5. Amount (g, t, o) >= n - q /\ Amount (g, t, o) > 0
      BY <3>1, <3>3, <3>4
    <3>6. g.held[t] # None /\ KindOf[g.held[t]] = o /\ g.count[t] = Amount (g, t, o)
      BY <3>5 DEF Amount
    <3>7. g.held[t] \in Item
      BY <1>1, <3>1, <3>6, GoodSlot
    <3>8. g.held[t] = o
      BY <1>3, <2>1, <3>6, <3>7, LikeOfShared
    <3>9. QED
      BY <2>2, <2>4, <3>1, <3>5, <3>6, <3>8 DEF Source
  <2>5. QED
    BY <2>3, <2>4
<1>4. QED
  BY <1>2, <1>3 DEF Item

-----------------------------------------------------------------------------
(* How many items slots count. *)

LEMMA PlacesAre ==
  ASSUME ItemAssumption, NEW h \in HeapType, NEW S \in SUBSET Slot, NEW k
  PROVE  Places (h, S, k) = {x \in S \X Nat : x[2] \in 1 .. Amount (h, x[1], k)}
<1>1. \A s \in S : h.count[s] \in Nat
  BY HeapIs
<1>2. ASSUME NEW x
      PROVE  x \in Places (h, S, k) <=> x \in S \X Nat /\ x[2] \in 1 .. Amount (h, x[1], k)
  <2>1. ASSUME x \in Places (h, S, k)
        PROVE  x \in S \X Nat /\ x[2] \in 1 .. Amount (h, x[1], k)
    <3>1. PICK s \in S : h.held[s] # None /\ KindOf[h.held[s]] = k /\ x \in {s} \X (1 .. h.count[s])
      BY <2>1 DEF Places
    <3>2. QED
      BY <3>1, <1>1 DEF Amount
  <2>2. ASSUME x \in S \X Nat, x[2] \in 1 .. Amount (h, x[1], k)
        PROVE  x \in Places (h, S, k)
    <3> DEFINE s == x[1]
    <3>1. s \in S /\ x[2] \in Nat /\ x = <<s, x[2]>>
      BY <2>2
    <3>2. Amount (h, s, k) # 0
      BY <2>2
    <3>3. h.held[s] # None /\ KindOf[h.held[s]] = k /\ Amount (h, s, k) = h.count[s]
      BY <3>2 DEF Amount
    <3>4. x \in {s} \X (1 .. h.count[s])
      BY <2>2, <3>1, <3>3
    <3> HIDE DEF s
    <3>5. QED
      BY <3>1, <3>3, <3>4 DEF Places
  <2>3. QED
    BY <2>1, <2>2
<1>3. QED
  BY <1>2

LEMMA PlacesFinite ==
  ASSUME ItemAssumption, InventoriesAssumption, NEW h \in HeapType, NEW S \in SUBSET Slot, NEW k
  PROVE  IsFiniteSet (Places (h, S, k))
<1> DEFINE T == {t \in S : h.held[t] # None /\ KindOf[h.held[t]] = k}
           R == {{s} \X (1 .. h.count[s]) : s \in T}
           f == [s \in T |-> {s} \X (1 .. h.count[s])]
<1>1. IsFiniteSet (T)
  <2>1. T \in SUBSET Slot
    OBVIOUS
  <2>2. QED
    BY <2>1, FS_Subset DEF InventoriesAssumption
<1>2. \A s \in T : h.count[s] \in Nat
  BY HeapIs
<1>3. f \in Surjection (T, R)
  <2>1. f \in [T -> R]
    OBVIOUS
  <2>2. \A r \in R : \E s \in T : f[s] = r
    OBVIOUS
  <2> HIDE DEF f, R, T
  <2>3. QED
    BY <2>1, <2>2 DEF Surjection
<1>4. \A r \in R : IsFiniteSet (r)
  <2>1. ASSUME NEW s \in T
        PROVE  IsFiniteSet ({s} \X (1 .. h.count[s]))
    <3>1. IsFiniteSet ({s})
      BY FS_Singleton
    <3>2. IsFiniteSet (1 .. h.count[s])
      BY <1>2, FS_Interval
    <3>3. QED
      BY <3>1, <3>2, FS_Product
  <2>2. QED
    BY <2>1
<1>5. Places (h, S, k) = UNION R
  BY DEF Places
<1> HIDE DEF R, T, f
<1>6. IsFiniteSet (R)
  BY <1>1, <1>3, FS_Surjection
<1>7. QED
  BY <1>4, <1>5, <1>6, FS_UNION

LEMMA CountedType ==
  ASSUME ItemAssumption, InventoriesAssumption, NEW h \in HeapType, NEW S \in SUBSET Slot, NEW k
  PROVE  Counted (h, S, k) \in Nat
<1>1. IsFiniteSet (Places (h, S, k))
  BY PlacesFinite
<1>2. QED
  BY <1>1, FS_CardinalityType DEF Counted

\* What slots count depends on the amounts in them alone.
LEMMA CountedSame ==
  ASSUME ItemAssumption, NEW h \in HeapType, NEW g \in HeapType, NEW S \in SUBSET Slot, NEW k,
         \A s \in S : Amount (g, s, k) = Amount (h, s, k)
  PROVE  Counted (g, S, k) = Counted (h, S, k)
<1>1. Places (g, S, k) = {x \in S \X Nat : x[2] \in 1 .. Amount (g, x[1], k)}
  BY PlacesAre
<1>2. Places (h, S, k) = {x \in S \X Nat : x[2] \in 1 .. Amount (h, x[1], k)}
  BY PlacesAre
<1>3. \A x \in S \X Nat : Amount (g, x[1], k) = Amount (h, x[1], k)
  OBVIOUS
<1>4. Places (g, S, k) = Places (h, S, k)
  BY <1>1, <1>2, <1>3
<1>5. QED
  BY <1>4 DEF Counted

LEMMA CountedSplit ==
  ASSUME ItemAssumption, InventoriesAssumption, NEW h \in HeapType, NEW S \in SUBSET Slot,
         NEW s \in S, NEW k
  PROVE  Counted (h, S, k) = Counted (h, S \ {s}, k) + Amount (h, s, k)
<1> DEFINE A == Places (h, S \ {s}, k)
           B == {s} \X (1 .. Amount (h, s, k))
<1>1. Amount (h, s, k) \in Nat
  BY AmountType
<1>2. A = {x \in (S \ {s}) \X Nat : x[2] \in 1 .. Amount (h, x[1], k)}
  <2>1. S \ {s} \in SUBSET Slot
    OBVIOUS
  <2>2. QED
    BY <2>1, PlacesAre
<1>3. Places (h, S, k) = {x \in S \X Nat : x[2] \in 1 .. Amount (h, x[1], k)}
  BY PlacesAre
<1>4. B = {x \in {s} \X Nat : x[2] \in 1 .. Amount (h, x[1], k)}
  <2>1. ASSUME NEW x
        PROVE  x \in B <=> x \in {s} \X Nat /\ x[2] \in 1 .. Amount (h, x[1], k)
    <3>1. x \in B => x \in {s} \X Nat /\ x[1] = s
      BY <1>1
    <3>2. x \in {s} \X Nat => x[1] = s
      OBVIOUS
    <3>3. x \in {s} \X Nat /\ x[2] \in 1 .. Amount (h, s, k) => x \in B
      OBVIOUS
    <3>4. x \in B => x[2] \in 1 .. Amount (h, s, k)
      OBVIOUS
    <3> HIDE DEF B
    <3>5. QED
      BY <3>1, <3>2, <3>3, <3>4
  <2> HIDE DEF B
  <2>2. QED
    BY <2>1
<1>5. Places (h, S, k) = A \cup B /\ A \cap B = {}
  <2> HIDE DEF A, B
  <2>1. \A x \in S \X Nat : x[1] = s \/ x \in (S \ {s}) \X Nat
    OBVIOUS
  <2>2. \A x \in S \X Nat : x[1] = s => x \in {s} \X Nat
    OBVIOUS
  <2>3. Places (h, S, k) = A \cup B
    BY <1>2, <1>3, <1>4, <2>1, <2>2
  <2>4. A \cap B = {}
    BY <1>2, <1>4
  <2>5. QED
    BY <2>3, <2>4
<1>6. IsFiniteSet (A) /\ Cardinality (A) \in Nat
  <2>1. S \ {s} \in SUBSET Slot
    OBVIOUS
  <2>2. IsFiniteSet (A)
    BY <2>1, PlacesFinite
  <2>3. QED
    BY <2>2, FS_CardinalityType
<1>7. IsFiniteSet (B) /\ Cardinality (B) = Amount (h, s, k)
  <2>1. IsFiniteSet ({s}) /\ Cardinality ({s}) = 1
    BY FS_Singleton
  <2> DEFINE I == 1 .. Amount (h, s, k)
  <2>2. IsFiniteSet (I) /\ Cardinality (I) = Amount (h, s, k)
    BY <1>1, FS_Interval
  <2> HIDE DEF I
  <2>3. IsFiniteSet ({s} \X I) /\ Cardinality ({s} \X I) = 1 * Amount (h, s, k)
    BY <2>1, <2>2, FS_Product
  <2>4. QED
    BY <1>1, <2>3 DEF I
<1> HIDE DEF A, B
<1>8. Cardinality (A \cup B) = Cardinality (A) + Cardinality (B) - Cardinality (A \cap B)
  BY <1>6, <1>7, FS_Union
<1>9. Cardinality (A \cap B) = 0
  BY <1>5, FS_EmptySet
<1>10. Cardinality (A \cup B) = Cardinality (A) + Amount (h, s, k)
  BY <1>1, <1>6, <1>7, <1>8, <1>9
<1>11. QED
  BY <1>5, <1>10 DEF Counted, A

Slots (S) == S \in SUBSET Slot
Less (S, s) == S \ {s}

LEMMA CountedMaybe ==
  ASSUME ItemAssumption, InventoriesAssumption, NEW h \in HeapType, NEW S, Slots (S), NEW s, NEW k
  PROVE  Counted (h, S, k) = Counted (h, Less (S, s), k) + (IF s \in S THEN Amount (h, s, k) ELSE 0)
<1>1. S \in SUBSET Slot /\ Less (S, s) \in SUBSET Slot
  BY DEF Slots, Less
<1>2. Counted (h, Less (S, s), k) \in Nat
  BY <1>1, CountedType
<1>3. CASE s \in S
  <2>1. Counted (h, S, k) = Counted (h, S \ {s}, k) + Amount (h, s, k)
    BY <1>1, <1>3, CountedSplit
  <2>2. QED
    BY <1>3, <2>1 DEF Less
<1>4. CASE s \notin S
  <2>1. Less (S, s) = S
    BY <1>4 DEF Less
  <2>2. QED
    BY <1>2, <1>4, <2>1
<1>5. QED
  BY <1>3, <1>4

\* When items go from one slot to another, what slots count changes by them.
LEMMA CountedMoved ==
  ASSUME ItemAssumption, InventoriesAssumption, NEW h \in HeapType, NEW g \in HeapType,
         NEW S \in SUBSET Slot, NEW s, NEW t, NEW k, NEW n \in Nat, Moved (h, g, s, t, k, n), NEW j \in Kinds
  PROVE  Counted (g, S, j) = Counted (h, S, j) + (IF s \in S /\ j = k THEN n ELSE 0)
                               - (IF t \in S /\ j = k THEN n ELSE 0)
<1>1. \A u \in Slot : Amount (h, u, j) \in Nat /\ Amount (g, u, j) \in Nat
  BY AmountType
<1>2. \A u \in Slot : Amount (g, u, j) = Amount (h, u, j) + (IF u = s /\ j = k THEN n ELSE 0)
                         - (IF u = t /\ j = k THEN n ELSE 0)
  BY DEF Moved
<1>3. CASE s = t
  <2>1. \A u \in S : Amount (g, u, j) = Amount (h, u, j)
    BY <1>1, <1>2, <1>3
  <2>2. Counted (g, S, j) = Counted (h, S, j)
    BY <2>1, CountedSame
  <2>3. Counted (h, S, j) \in Nat
    BY CountedType
  <2>4. QED
    BY <1>3, <2>2, <2>3
<1>4. CASE s # t
  <2> DEFINE Q == Less (S, s)
             R == Less (Q, t)
  <2>1. Q \in SUBSET Slot /\ R \in SUBSET Slot /\ (t \in Q <=> t \in S) /\ R \subseteq S /\ s \notin R /\ t \notin R
    BY <1>4 DEF Less
  <2>2. /\ Counted (h, S, j) = Counted (h, Q, j) + (IF s \in S THEN Amount (h, s, j) ELSE 0)
        /\ Counted (g, S, j) = Counted (g, Q, j) + (IF s \in S THEN Amount (g, s, j) ELSE 0)
    <3>1. Slots (S)
      BY DEF Slots
    <3>2. Counted (h, S, j) = Counted (h, Less (S, s), j) + (IF s \in S THEN Amount (h, s, j) ELSE 0)
      BY <3>1, CountedMaybe
    <3>3. Counted (g, S, j) = Counted (g, Less (S, s), j) + (IF s \in S THEN Amount (g, s, j) ELSE 0)
      BY <3>1, CountedMaybe
    <3>4. QED
      BY <3>2, <3>3
  <2>3. \A u \in R : Amount (g, u, j) = Amount (h, u, j)
    BY <1>1, <1>2, <2>1
  <2> HIDE DEF Q
  <2>10. Slots (Q)
    BY <2>1 DEF Slots
  <2>4. /\ Counted (h, Q, j) = Counted (h, R, j) + (IF t \in Q THEN Amount (h, t, j) ELSE 0)
        /\ Counted (g, Q, j) = Counted (g, R, j) + (IF t \in Q THEN Amount (g, t, j) ELSE 0)
    BY <2>10, CountedMaybe
  <2> HIDE DEF R
  <2>5. Counted (g, R, j) = Counted (h, R, j) /\ Counted (h, R, j) \in Nat
    BY <2>1, <2>3, CountedSame, CountedType
  <2>6. /\ s \in S => Amount (h, s, j) \in Nat /\ Amount (g, s, j) = Amount (h, s, j) + (IF j = k THEN n ELSE 0)
        /\ t \in S => Amount (h, t, j) \in Nat /\ Amount (g, t, j) = Amount (h, t, j) - (IF j = k THEN n ELSE 0)
    BY <1>1, <1>2, <1>4
  <2> DEFINE hs == IF s \in S THEN Amount (h, s, j) ELSE 0
             gs == IF s \in S THEN Amount (g, s, j) ELSE 0
             ht == IF t \in S THEN Amount (h, t, j) ELSE 0
             gt == IF t \in S THEN Amount (g, t, j) ELSE 0
             c  == Counted (h, R, j)
  <2>7. /\ gs = hs + (IF s \in S /\ j = k THEN n ELSE 0) /\ hs \in Nat
        /\ gt = ht - (IF t \in S /\ j = k THEN n ELSE 0) /\ ht \in Nat
    BY <2>6
  <2>8. Counted (g, S, j) = c + gt + gs /\ Counted (h, S, j) = c + ht + hs
    BY <2>1, <2>2, <2>4, <2>5
  <2> HIDE DEF hs, gs, ht, gt
  <2>9. QED
    BY <2>5, <2>7, <2>8
<1>5. QED
  BY <1>3, <1>4

\* m items of kind k came from slot t to the slots of D.
Flow (h, g, D, t, k, m) ==
  /\ \A u \in Slot, j \in Kinds : j # k \/ u \notin D \cup {t} => Amount (g, u, j) = Amount (h, u, j)
  /\ \A S \in SUBSET Slot : D \subseteq S =>
       Counted (g, S, k) = Counted (h, S, k) + m - (IF t \in S THEN m ELSE 0)

LEMMA FlowStarts ==
  ASSUME ItemAssumption, InventoriesAssumption, NEW h \in HeapType, NEW D, NEW t, NEW k
  PROVE  Flow (h, h, D, t, k, 0)
<1>1. \A S \in SUBSET Slot : Counted (h, S, k) \in Nat
  BY CountedType
<1>2. QED
  BY <1>1 DEF Flow

LEMMA FlowGoesOn ==
  ASSUME ItemAssumption, InventoriesAssumption, NEW h \in HeapType, NEW g \in HeapType, NEW f \in HeapType,
         NEW D, NEW t, NEW k \in Kinds, NEW m \in Nat, NEW q \in Nat, NEW s \in D,
         Flow (h, g, D, t, k, m), Moved (g, f, s, t, k, q)
  PROVE  Flow (h, f, D, t, k, m + q)
<1>1. ASSUME NEW u \in Slot, NEW j \in Kinds, j # k \/ u \notin D \cup {t}
      PROVE  Amount (f, u, j) = Amount (h, u, j)
  <2>1. Amount (g, u, j) = Amount (h, u, j) /\ Amount (g, u, j) \in Nat
    BY <1>1, AmountType DEF Flow
  <2>2. Amount (f, u, j) = Amount (g, u, j) + (IF u = s /\ j = k THEN q ELSE 0)
                         - (IF u = t /\ j = k THEN q ELSE 0)
    BY DEF Moved
  <2>3. QED
    BY <1>1, <2>1, <2>2
<1>2. ASSUME NEW S \in SUBSET Slot, D \subseteq S
      PROVE  Counted (f, S, k) = Counted (h, S, k) + (m + q) - (IF t \in S THEN m + q ELSE 0)
  <2>1. Counted (g, S, k) = Counted (h, S, k) + m - (IF t \in S THEN m ELSE 0)
    BY <1>2 DEF Flow
  <2>2. Counted (f, S, k) = Counted (g, S, k) + (IF s \in S /\ k = k THEN q ELSE 0)
                               - (IF t \in S /\ k = k THEN q ELSE 0)
    BY CountedMoved
  <2>3. Counted (h, S, k) \in Nat /\ s \in S
    BY <1>2, CountedType
  <2>4. QED
    BY <2>1, <2>2, <2>3
<1>3. QED
  BY <1>1, <1>2 DEF Flow

LEMMA FlowWider ==
  ASSUME NEW h, NEW g, NEW D, NEW E, D \subseteq E, NEW t, NEW k, NEW m, Flow (h, g, D, t, k, m)
  PROVE  Flow (h, g, E, t, k, m)
BY DEF Flow

\* What slots count of the other kinds does not change.
LEMMA FlowOfOthers ==
  ASSUME ItemAssumption, NEW h \in HeapType, NEW g \in HeapType, NEW D, NEW t, NEW k, NEW m,
         Flow (h, g, D, t, k, m), NEW S \in SUBSET Slot, NEW j \in Kinds, j # k
  PROVE  Counted (g, S, j) = Counted (h, S, j)
<1>1. \A u \in S : Amount (g, u, j) = Amount (h, u, j)
  BY DEF Flow
<1>2. QED
  BY <1>1, CountedSame

-----------------------------------------------------------------------------
(* inventory::add. *)

\* After all but r of n items o came from t to the slots of D.
Running (h, g, D, t, o, n, r) ==
  /\ Good (g) /\ r \in 0 .. n
  /\ Flow (h, g, D, t, KindOf[o], n - r)
  /\ Frame (h, g)
  /\ r > 0 => Source (g, o, r, t)
  /\ Free (g) = IF o \in Mutable /\ t = None /\ r < n THEN Free (h) \ {o} ELSE Free (h)

LEMMA RunningStarts ==
  ASSUME ItemAssumption, InventoriesAssumption, NEW h, Good (h), NEW D, NEW t, NEW o \in Item, NEW n \in Nat,
         n > 0 => Source (h, o, n, t)
  PROVE  Running (h, h, D, t, o, n, n)
<1>1. h \in HeapType
  BY DEF Good
<1>2. Flow (h, h, D, t, KindOf[o], 0)
  BY <1>1, FlowStarts
<1>3. n \in 0 .. n /\ n - n = 0
  OBVIOUS
<1>4. QED
  BY <1>2, <1>3, FrameItself DEF Running

LEMMA RunningWider ==
  ASSUME NEW h, NEW g, NEW D, NEW E, D \subseteq E, NEW t, NEW o, NEW n, NEW r,
         Running (h, g, D, t, o, n, r)
  PROVE  Running (h, g, E, t, o, n, r)
BY FlowWider DEF Running

LEMMA RunningGoesOn ==
  ASSUME ItemAssumption, InventoriesAssumption, NEW h \in HeapType, NEW g, NEW D,
         NEW t \in Slot \cup {None}, NEW o \in Item, NEW n \in Nat, NEW r,
         o \in Mutable => n = 1, Running (h, g, D, t, o, n, r), NEW s \in Slot, s \in D
  PROVE  \E f : /\ AddItems (g, s, o, r) = [heap |-> f, rest |-> r - Takes (g, s, o, r)]
                /\ Takes (g, s, o, r) \in 0 .. r
                /\ Running (h, f, D, t, o, n, r - Takes (g, s, o, r))
                /\ Added (g, f, s, t, o, Takes (g, s, o, r))
<1> DEFINE q == Takes (g, s, o, r)
<1>1. Good (g) /\ r \in Nat /\ r \in 0 .. n /\ (r > 0 => Source (g, o, r, t)) /\ g \in HeapType
  BY DEF Running, Good
<1>2. PICK f : AddItems (g, s, o, r) = [heap |-> f, rest |-> r - q] /\ Added (g, f, s, t, o, q)
  BY <1>1, AddItemsAdds
<1>3. q \in 0 .. r
  BY <1>1, TakesAtMost
<1> HIDE DEF q
<1>4. Good (f) /\ f \in HeapType /\ Moved (g, f, s, t, KindOf[o], q) /\ Frame (g, f) /\ (q = 0 => f = g)
      /\ Free (f) = IF o \in Mutable /\ t = None /\ q > 0 THEN Free (g) \ {o} ELSE Free (g)
  BY <1>2 DEF Added, Good
<1>5. Flow (h, f, D, t, KindOf[o], n - (r - q))
  <2>1. n - r \in Nat /\ q \in Nat /\ n - (r - q) = (n - r) + q
    BY <1>1, <1>3
  <2>2. KindOf[o] \in Kinds
    BY DEF Kinds
  <2>3. Flow (h, g, D, t, KindOf[o], n - r)
    BY DEF Running
  <2>4. Flow (h, f, D, t, KindOf[o], (n - r) + q)
    BY <1>1, <1>4, <2>1, <2>2, <2>3, FlowGoesOn
  <2>5. QED
    BY <2>1, <2>4
<1>6. Free (f) = IF o \in Mutable /\ t = None /\ r - q < n THEN Free (h) \ {o} ELSE Free (h)
  <2>1. Free (g) = IF o \in Mutable /\ t = None /\ r < n THEN Free (h) \ {o} ELSE Free (h)
    BY DEF Running
  <2>2. CASE o \in Mutable /\ t = None
    <3>1. n = 1
      BY <2>2
    <3>2. CASE q = 0
      <4>1. r - q = r
        BY <1>1, <3>2
      <4>2. QED
        BY <1>4, <2>1, <2>2, <3>2, <4>1
    <3>3. CASE q > 0
      <4>1. r - q < n
        BY <1>1, <1>3, <3>3
      <4>2. QED
        BY <1>4, <2>1, <2>2, <3>3, <4>1
    <3>4. QED
      BY <1>3, <3>2, <3>3
  <2>3. CASE ~ (o \in Mutable /\ t = None)
    BY <1>4, <2>1, <2>3
  <2>4. QED
    BY <2>2, <2>3
<1>7. Frame (h, f)
  <2>1. Free (f) \subseteq Free (g)
    BY <1>4
  <2>2. Frame (h, g)
    BY DEF Running
  <2>3. ASSUME NEW p \in Free (h) \cap Free (f)
        PROVE  f.next[p] = h.next[p]
    <3>1. p \in Free (h) \cap Free (g) /\ p \in Free (g) \cap Free (f)
      BY <2>1
    <3>2. QED
      BY <1>4, <2>2, <3>1 DEF Frame
  <2>4. \A k \in Shared : f.slot[k] = h.slot[k]
    BY <1>4, <2>2 DEF Frame
  <2>5. QED
    BY <2>3, <2>4 DEF Frame
<1>8. r - q > 0 => Source (f, o, r - q, t)
  <2>1. SUFFICES ASSUME r - q > 0 PROVE Source (f, o, r - q, t)
    OBVIOUS
  <2>2. Source (g, o, r, t) /\ q \in 0 .. r - 1
    BY <1>1, <1>3, <2>1
  <2>3. o \in Mutable => r = 1
    BY <1>1, <2>2
  <2>4. Added (g, f, s, t, o, q)
    BY <1>2
  <2>5. QED
    BY <1>1, <2>2, <2>3, <2>4, SourceStays
<1>9. r - q \in 0 .. n
  BY <1>1, <1>3
<1>10. Running (h, f, D, t, o, n, r - q)
  BY <1>4, <1>5, <1>6, <1>7, <1>8, <1>9 DEF Running
<1>11. QED
  BY <1>2, <1>3, <1>10 DEF q

LEMMA EmptySlot ==
  ASSUME ItemAssumption, NEW h, Good (h), NEW u \in Slot
  PROVE  h.count[u] = 0 <=> \A j \in Kinds : Amount (h, u, j) = 0
<1>1. h.held[u] \in Item \cup {None} /\ h.count[u] \in Nat /\ (h.held[u] = None <=> h.count[u] = 0)
  BY GoodSlot
<1>2. CASE h.held[u] = None
  BY <1>1, <1>2 DEF Amount
<1>3. CASE h.held[u] # None
  <2>1. KindOf[h.held[u]] \in Kinds
    BY <1>1, <1>3 DEF Kinds
  <2>2. Amount (h, u, KindOf[h.held[u]]) = h.count[u]
    BY <1>3 DEF Amount
  <2>3. QED
    BY <1>1, <1>3, <2>1, <2>2
<1>4. QED
  BY <1>2, <1>3

LEMMA AmountAtMost ==
  ASSUME ItemAssumption, NEW h, Good (h), NEW u \in Slot, NEW o \in Item
  PROVE  Amount (h, u, KindOf[o]) \in 0 .. MaxStack (o)
<1>1. h.count[u] \in Nat /\ MaxStack (o) \in Nat
  BY GoodSlot DEF ItemAssumption, MaxStack, Item
<1>2. h.held[u] # None /\ KindOf[h.held[u]] = KindOf[o] => h.count[u] <= MaxStack (o)
  <2>1. KindOf[h.held[u]] = KindOf[o] => MaxStack (h.held[u]) = MaxStack (o)
    BY DEF MaxStack
  <2>2. QED
    BY <2>1, GoodSlot
<1>3. QED
  BY <1>1, <1>2 DEF Amount

\* Adding items that are in no slot only adds: slots without items but the
\* one they are added to stay so, and that one is full unless it took all.
LEMMA AddedOnlyAdds ==
  ASSUME ItemAssumption, NEW g, Good (g), NEW s \in Slot, NEW o \in Item, NEW r \in Nat,
         r > 0 => Source (g, o, r, None), NEW f, Added (g, f, s, None, o, Takes (g, s, o, r))
  PROVE  /\ \A u \in Slot, j \in Kinds : Amount (f, u, j) >= Amount (g, u, j)
         /\ \A u \in Slot \ {s} : g.count[u] = 0 => f.count[u] = 0
         /\ Amount (g, s, KindOf[o]) > 0 => r - Takes (g, s, o, r) = 0 \/ Amount (f, s, KindOf[o]) = MaxStack (o)
<1> DEFINE q == Takes (g, s, o, r)
<1>1. q \in 0 .. r
  BY TakesAtMost
<1>2. g \in HeapType /\ Good (f) /\ f \in HeapType /\ None \notin Slot
  BY DEF Added, Good, ItemAssumption
<1> HIDE DEF q
<1>3. ASSUME NEW u \in Slot, NEW j \in Kinds
      PROVE  Amount (f, u, j) = Amount (g, u, j) + (IF u = s /\ j = KindOf[o] THEN q ELSE 0)
             /\ Amount (g, u, j) \in Nat
  <2>1. Amount (f, u, j) = Amount (g, u, j) + (IF u = s /\ j = KindOf[o] THEN q ELSE 0)
                             - (IF u = None /\ j = KindOf[o] THEN q ELSE 0)
    BY DEF Added, Moved, q
  <2>2. Amount (g, u, j) \in Nat /\ u # None
    BY <1>2, AmountType
  <2>3. QED
    BY <1>1, <2>1, <2>2
<1>4. \A u \in Slot, j \in Kinds : Amount (f, u, j) >= Amount (g, u, j)
  BY <1>1, <1>3
<1>5. ASSUME NEW u \in Slot \ {s}, g.count[u] = 0
      PROVE  f.count[u] = 0
  <2>1. \A j \in Kinds : Amount (g, u, j) = 0
    BY <1>5, EmptySlot
  <2>2. \A j \in Kinds : Amount (f, u, j) = 0
    BY <1>3, <2>1
  <2>3. QED
    BY <1>2, <2>2, EmptySlot
<1>6. ASSUME Amount (g, s, KindOf[o]) > 0, r - q # 0
      PROVE  Amount (f, s, KindOf[o]) = MaxStack (o)
  <2>1. r > 0 /\ q # r
    BY <1>1, <1>6
  <2>2. g.slot[o] = None
    BY <2>1 DEF Source
  <2>3. g.held[s] # None /\ KindOf[g.held[s]] = KindOf[o] /\ Amount (g, s, KindOf[o]) = g.count[s]
    BY <1>6 DEF Amount
  <2>4. q = Least (MaxStack (o) - g.count[s], r)
    BY <1>2, <2>1, <2>2, <2>3 DEF q, Takes, Same
  <2>5. KindOf[o] \in Kinds
    BY DEF Kinds
  <2>6. Amount (f, s, KindOf[o]) = g.count[s] + q /\ g.count[s] \in Nat
    BY <1>3, <2>3, <2>5
  <2>7. MaxStack (o) \in Nat
    BY DEF ItemAssumption, MaxStack, Item
  <2>8. QED
    BY <2>1, <2>4, <2>6, <2>7 DEF Least
<1>7. QED
  BY <1>4, <1>5, <1>6 DEF q

Accs == [heap : HeapType, rest : Nat, new : Seq (Slot \ {Tmp}), hung : BOOLEAN]
Acc (f, r, new, stuck) == [heap |-> f, rest |-> r, new |-> new, hung |-> stuck]

\* What a loop of inventory::add over old slots may make of b.
OnWay (b, h, D, t, o, n) ==
  {a \in Accs :
     /\ a.new = b.new /\ a.hung = b.hung
     /\ Running (h, a.heap, D, t, o, n, a.rest)
     /\ b.rest = 0 => a = b
     /\ t = None => \A u \in Slot, j \in Kinds : Amount (a.heap, u, j) >= Amount (b.heap, u, j)}

LEMMA OnWayStarts ==
  ASSUME ItemAssumption, NEW b \in Accs, NEW h, NEW D, NEW t, NEW o, NEW n,
         Running (h, b.heap, D, t, o, n, b.rest)
  PROVE  b \in OnWay (b, h, D, t, o, n)
<1>1. b.heap \in HeapType
  BY DEF Accs
<1>2. \A u \in Slot, j \in Kinds : Amount (b.heap, u, j) >= Amount (b.heap, u, j)
  BY <1>1, AmountType
<1>3. QED
  BY <1>2 DEF OnWay

LEMMA PutIs ==
  ASSUME NEW a \in Accs, NEW s, NEW o, NEW f, NEW r,
         AddItems (a.heap, s, o, a.rest) = [heap |-> f, rest |-> r]
  PROVE  Put (a, s, o) = Acc (f, r, a.new, a.hung)
<1>1. a = Acc (a.heap, a.rest, a.new, a.hung)
  BY DEF Accs, Acc
<1>2. Put (a, s, o) = [[a EXCEPT !.heap = f] EXCEPT !.rest = r]
  BY DEF Put
<1>3. QED
  BY <1>1, <1>2 DEF Acc

LEMMA PutStays ==
  ASSUME ItemAssumption, InventoriesAssumption, NEW b \in Accs, NEW h \in HeapType, NEW D,
         NEW t \in Slot \cup {None}, NEW o \in Item, NEW n \in Nat, o \in Mutable => n = 1,
         NEW a \in OnWay (b, h, D, t, o, n), NEW s \in Slot, s \in D
  PROVE  /\ Put (a, s, o) \in OnWay (b, h, D, t, o, n)
         /\ Added (a.heap, Put (a, s, o).heap, s, t, o, Takes (a.heap, s, o, a.rest))
         /\ Put (a, s, o).rest = a.rest - Takes (a.heap, s, o, a.rest)
         /\ Good (a.heap) /\ a.rest \in Nat /\ (a.rest > 0 => Source (a.heap, o, a.rest, t))
<1> DEFINE q == Takes (a.heap, s, o, a.rest)
<1>1. /\ a \in Accs /\ a.new = b.new /\ a.hung = b.hung /\ Running (h, a.heap, D, t, o, n, a.rest)
      /\ b.rest = 0 => a = b
      /\ t = None => \A u \in Slot, j \in Kinds : Amount (a.heap, u, j) >= Amount (b.heap, u, j)
  BY DEF OnWay
<1>2. a.rest \in Nat /\ a.heap \in HeapType /\ b.heap \in HeapType
      /\ a = Acc (a.heap, a.rest, a.new, a.hung) /\ a.new \in Seq (Slot \ {Tmp}) /\ a.hung \in BOOLEAN
  BY <1>1 DEF Accs, Acc
<1>3. PICK f : /\ AddItems (a.heap, s, o, a.rest) = [heap |-> f, rest |-> a.rest - q]
               /\ q \in 0 .. a.rest
               /\ Running (h, f, D, t, o, n, a.rest - q)
               /\ Added (a.heap, f, s, t, o, q)
  BY <1>1, RunningGoesOn
<1>4. Put (a, s, o) = Acc (f, a.rest - q, a.new, a.hung)
  BY <1>1, <1>3, PutIs
<1> HIDE DEF q
<1> DEFINE e == Put (a, s, o)
<1>5. e.heap = f /\ e.rest = a.rest - q /\ e.new = a.new /\ e.hung = a.hung
  BY <1>4 DEF Acc
<1>6. f \in HeapType /\ a.rest - q \in Nat
  BY <1>2, <1>3 DEF Added, Good
<1>7. e \in Accs
  BY <1>2, <1>4, <1>6 DEF Accs, Acc
<1>8. Good (a.heap) /\ (a.rest > 0 => Source (a.heap, o, a.rest, t))
  BY <1>1 DEF Running
<1>9. b.rest = 0 => e = b
  <2>1. SUFFICES ASSUME b.rest = 0 PROVE e = b
    OBVIOUS
  <2>2. a = b /\ a.rest = 0 /\ q = 0
    BY <1>1, <1>3, <2>1
  <2>3. f = a.heap /\ a.rest - q = a.rest
    BY <1>3, <2>2 DEF Added
  <2> HIDE DEF e
  <2>4. e = Acc (a.heap, a.rest, a.new, a.hung)
    BY <1>4, <2>3 DEF e
  <2>5. QED
    BY <1>2, <2>2, <2>4
<1>10. ASSUME t = None, NEW u \in Slot, NEW j \in Kinds
       PROVE  Amount (e.heap, u, j) >= Amount (b.heap, u, j)
  <2>1. a.rest > 0 => Source (a.heap, o, a.rest, None)
    BY <1>8, <1>10
  <2>2. Added (a.heap, f, s, None, o, Takes (a.heap, s, o, a.rest))
    BY <1>3, <1>10 DEF q
  <2>3. Amount (f, u, j) >= Amount (a.heap, u, j)
    BY <1>2, <1>8, <2>1, <2>2, AddedOnlyAdds
  <2>4. Amount (a.heap, u, j) >= Amount (b.heap, u, j)
    BY <1>1, <1>10
  <2>5. Amount (f, u, j) \in Nat /\ Amount (a.heap, u, j) \in Nat /\ Amount (b.heap, u, j) \in Nat
    BY <1>2, <1>6, AmountType
  <2>6. QED
    BY <1>5, <2>3, <2>4, <2>5
<1> HIDE DEF e
<1>11. e \in OnWay (b, h, D, t, o, n)
  BY <1>1, <1>3, <1>5, <1>7, <1>9, <1>10 DEF OnWay
<1>12. QED
  BY <1>2, <1>3, <1>5, <1>8, <1>11 DEF e, q

FillAll (b, list, o) == FoldLeft (LAMBDA a, s : InEmpty (a, s, o), b, list)

\* The loop over the empty slots as a run.
FillAllIn (A, list, o) == \A j \in 1 .. Len (list), d \in A : InEmpty (d, list[j], o) \in A

FillAllRun (run, A, b, list, o) ==
  /\ run[0] = b /\ run[Len (list)] = FillAll (b, list, o)
  /\ \A j \in 1 .. Len (list) : run[j - 1] \in A /\ run[j] = InEmpty (run[j - 1], list[j], o)

LEMMA FilledRuns ==
  ASSUME NEW S, NEW list, list \in Seq (S), NEW A, NEW b, b \in A, NEW o, FillAllIn (A, list, o)
  PROVE  /\ FillAll (b, list, o) \in A
         /\ \E run : FillAllRun (run, A, b, list, o)
<1> DEFINE l == Len (list)
           F == [p \in (1 .. l) \X A |-> InEmpty (p[2], list[p[1]], o)]
           At (g, x) == IF x = {} THEN b ELSE InEmpty (g[x \ {Max (x)}], list[Max (x)], o)
           Step (g) == [x \in SUBSET (1 .. l) |-> At (g, x)]
           iter == CHOOSE g : g = Step (g)
           r == FillAll (b, list, o)
<1>1. l \in Nat /\ DOMAIN list = 1 .. l
  BY LenProperties
<1>2. r = iter[1 .. l]
  BY <1>1 DEF FillAll, FoldLeft, MapThenFoldSet, Max
<1>3. \A j \in 1 .. l, d \in A : InEmpty (d, list[j], o) \in A
  BY DEF FillAllIn
<1> HIDE DEF l, r
<1>4. /\ F \in [(1 .. l) \X A -> A]
      /\ \A j \in 1 .. l, d \in A : F[<<j, d>>] = InEmpty (d, list[j], o)
  BY <1>1, <1>3
<1> HIDE DEF F
<1>5. /\ \E g \in [SUBSET (1 .. l) -> A] : IsFold (g, l, b, F)
      /\ \A x \in SUBSET (1 .. l) : x # {} => Max (x) \in 1 .. l /\ x \ {Max (x)} \in SUBSET (1 .. l)
  BY <1>1, <1>4, FoldGoesOn
<1>6. PICK g \in [SUBSET (1 .. l) -> A] : IsFold (g, l, b, F)
  BY <1>5
<1>7. \A x \in SUBSET (1 .. l) : iter[x] = At (iter, x)
  <2>1. \A x \in SUBSET (1 .. l) : g[x] = At (g, x)
    BY <1>4, <1>5, <1>6 DEF IsFold
  <2> HIDE DEF At
  <2>2. g = Step (g)
    BY <2>1
  <2> HIDE DEF Step
  <2>3. iter = Step (iter)
    BY <2>2
  <2> HIDE DEF iter
  <2>4. QED
    BY <2>3 DEF Step
<1> HIDE DEF iter
<1>8. Iterates (iter, l, A, b, F)
  BY <1>4, <1>5, <1>7 DEF Iterates
<1>9. PICK run \in [0 .. l -> A] : run[l] = iter[1 .. l] /\ IsRun (run, l, b, F)
  BY <1>1, <1>4, <1>8, FoldRuns
<1>10. \A j \in 1 .. l : run[j - 1] \in A /\ run[j] = InEmpty (run[j - 1], list[j], o)
  <2>1. \A j \in 1 .. l : j - 1 \in 0 .. l
    BY <1>1
  <2>2. \A j \in 1 .. l : run[j - 1] \in A
    BY <2>1
  <2>3. \A j \in 1 .. l : run[j] = F[<<j, run[j - 1]>>]
    BY <1>9 DEF IsRun
  <2>4. QED
    BY <1>4, <2>2, <2>3
<1>11. run[0] = b
  BY <1>9 DEF IsRun
<1>12. run[l] \in A
  <2>1. l \in 0 .. l
    BY <1>1
  <2>2. QED
    BY <2>1, <1>9
<1>13. QED
  BY <1>2, <1>9, <1>10, <1>11, <1>12 DEF l, r, FillAllRun

StackAll (b, list, o) == FoldLeft (LAMBDA a, s : OnStack (a, s, o), b, list)

\* The loop over the slots that have such items as a run.
StackAllIn (A, list, o) == \A j \in 1 .. Len (list), d \in A : OnStack (d, list[j], o) \in A

StackAllRun (run, A, b, list, o) ==
  /\ run[0] = b /\ run[Len (list)] = StackAll (b, list, o)
  /\ \A j \in 1 .. Len (list) : run[j - 1] \in A /\ run[j] = OnStack (run[j - 1], list[j], o)

LEMMA StackedRuns ==
  ASSUME NEW S, NEW list, list \in Seq (S), NEW A, NEW b, b \in A, NEW o, StackAllIn (A, list, o)
  PROVE  /\ StackAll (b, list, o) \in A
         /\ \E run : StackAllRun (run, A, b, list, o)
<1> DEFINE l == Len (list)
           F == [p \in (1 .. l) \X A |-> OnStack (p[2], list[p[1]], o)]
           At (g, x) == IF x = {} THEN b ELSE OnStack (g[x \ {Max (x)}], list[Max (x)], o)
           Step (g) == [x \in SUBSET (1 .. l) |-> At (g, x)]
           iter == CHOOSE g : g = Step (g)
           r == StackAll (b, list, o)
<1>1. l \in Nat /\ DOMAIN list = 1 .. l
  BY LenProperties
<1>2. r = iter[1 .. l]
  BY <1>1 DEF StackAll, FoldLeft, MapThenFoldSet, Max
<1>3. \A j \in 1 .. l, d \in A : OnStack (d, list[j], o) \in A
  BY DEF StackAllIn
<1> HIDE DEF l, r
<1>4. /\ F \in [(1 .. l) \X A -> A]
      /\ \A j \in 1 .. l, d \in A : F[<<j, d>>] = OnStack (d, list[j], o)
  BY <1>1, <1>3
<1> HIDE DEF F
<1>5. /\ \E g \in [SUBSET (1 .. l) -> A] : IsFold (g, l, b, F)
      /\ \A x \in SUBSET (1 .. l) : x # {} => Max (x) \in 1 .. l /\ x \ {Max (x)} \in SUBSET (1 .. l)
  BY <1>1, <1>4, FoldGoesOn
<1>6. PICK g \in [SUBSET (1 .. l) -> A] : IsFold (g, l, b, F)
  BY <1>5
<1>7. \A x \in SUBSET (1 .. l) : iter[x] = At (iter, x)
  <2>1. \A x \in SUBSET (1 .. l) : g[x] = At (g, x)
    BY <1>4, <1>5, <1>6 DEF IsFold
  <2> HIDE DEF At
  <2>2. g = Step (g)
    BY <2>1
  <2> HIDE DEF Step
  <2>3. iter = Step (iter)
    BY <2>2
  <2> HIDE DEF iter
  <2>4. QED
    BY <2>3 DEF Step
<1> HIDE DEF iter
<1>8. Iterates (iter, l, A, b, F)
  BY <1>4, <1>5, <1>7 DEF Iterates
<1>9. PICK run \in [0 .. l -> A] : run[l] = iter[1 .. l] /\ IsRun (run, l, b, F)
  BY <1>1, <1>4, <1>8, FoldRuns
<1>10. \A j \in 1 .. l : run[j - 1] \in A /\ run[j] = OnStack (run[j - 1], list[j], o)
  <2>1. \A j \in 1 .. l : j - 1 \in 0 .. l
    BY <1>1
  <2>2. \A j \in 1 .. l : run[j - 1] \in A
    BY <2>1
  <2>3. \A j \in 1 .. l : run[j] = F[<<j, run[j - 1]>>]
    BY <1>9 DEF IsRun
  <2>4. QED
    BY <1>4, <2>2, <2>3
<1>11. run[0] = b
  BY <1>9 DEF IsRun
<1>12. run[l] \in A
  <2>1. l \in 0 .. l
    BY <1>1
  <2>2. QED
    BY <2>1, <1>9
<1>13. QED
  BY <1>2, <1>9, <1>10, <1>11, <1>12 DEF l, r, StackAllRun

GrowAll (b, list, o) == FoldLeft (LAMBDA a, s : InNew (a, s, o), b, list)

\* The loop over the new slots as a run.
GrowAllIn (A, list, o) == \A j \in 1 .. Len (list), d \in A : InNew (d, list[j], o) \in A

GrowAllRun (run, A, b, list, o) ==
  /\ run[0] = b /\ run[Len (list)] = GrowAll (b, list, o)
  /\ \A j \in 1 .. Len (list) : run[j - 1] \in A /\ run[j] = InNew (run[j - 1], list[j], o)

LEMMA GrownRuns ==
  ASSUME NEW S, NEW list, list \in Seq (S), NEW A, NEW b, b \in A, NEW o, GrowAllIn (A, list, o)
  PROVE  /\ GrowAll (b, list, o) \in A
         /\ \E run : GrowAllRun (run, A, b, list, o)
<1> DEFINE l == Len (list)
           F == [p \in (1 .. l) \X A |-> InNew (p[2], list[p[1]], o)]
           At (g, x) == IF x = {} THEN b ELSE InNew (g[x \ {Max (x)}], list[Max (x)], o)
           Step (g) == [x \in SUBSET (1 .. l) |-> At (g, x)]
           iter == CHOOSE g : g = Step (g)
           r == GrowAll (b, list, o)
<1>1. l \in Nat /\ DOMAIN list = 1 .. l
  BY LenProperties
<1>2. r = iter[1 .. l]
  BY <1>1 DEF GrowAll, FoldLeft, MapThenFoldSet, Max
<1>3. \A j \in 1 .. l, d \in A : InNew (d, list[j], o) \in A
  BY DEF GrowAllIn
<1> HIDE DEF l, r
<1>4. /\ F \in [(1 .. l) \X A -> A]
      /\ \A j \in 1 .. l, d \in A : F[<<j, d>>] = InNew (d, list[j], o)
  BY <1>1, <1>3
<1> HIDE DEF F
<1>5. /\ \E g \in [SUBSET (1 .. l) -> A] : IsFold (g, l, b, F)
      /\ \A x \in SUBSET (1 .. l) : x # {} => Max (x) \in 1 .. l /\ x \ {Max (x)} \in SUBSET (1 .. l)
  BY <1>1, <1>4, FoldGoesOn
<1>6. PICK g \in [SUBSET (1 .. l) -> A] : IsFold (g, l, b, F)
  BY <1>5
<1>7. \A x \in SUBSET (1 .. l) : iter[x] = At (iter, x)
  <2>1. \A x \in SUBSET (1 .. l) : g[x] = At (g, x)
    BY <1>4, <1>5, <1>6 DEF IsFold
  <2> HIDE DEF At
  <2>2. g = Step (g)
    BY <2>1
  <2> HIDE DEF Step
  <2>3. iter = Step (iter)
    BY <2>2
  <2> HIDE DEF iter
  <2>4. QED
    BY <2>3 DEF Step
<1> HIDE DEF iter
<1>8. Iterates (iter, l, A, b, F)
  BY <1>4, <1>5, <1>7 DEF Iterates
<1>9. PICK run \in [0 .. l -> A] : run[l] = iter[1 .. l] /\ IsRun (run, l, b, F)
  BY <1>1, <1>4, <1>8, FoldRuns
<1>10. \A j \in 1 .. l : run[j - 1] \in A /\ run[j] = InNew (run[j - 1], list[j], o)
  <2>1. \A j \in 1 .. l : j - 1 \in 0 .. l
    BY <1>1
  <2>2. \A j \in 1 .. l : run[j - 1] \in A
    BY <2>1
  <2>3. \A j \in 1 .. l : run[j] = F[<<j, run[j - 1]>>]
    BY <1>9 DEF IsRun
  <2>4. QED
    BY <1>4, <2>2, <2>3
<1>11. run[0] = b
  BY <1>9 DEF IsRun
<1>12. run[l] \in A
  <2>1. l \in 0 .. l
    BY <1>1
  <2>2. QED
    BY <2>1, <1>9
<1>13. QED
  BY <1>2, <1>9, <1>10, <1>11, <1>12 DEF l, r, GrowAllRun

LEMMA SlotList ==
  ASSUME slots \in [Inventory -> Seq (Slot \ {Tmp})], NEW i \in Inventory
  PROVE  /\ slots[i] \in Seq (Slot \ {Tmp}) /\ Len (slots[i]) \in Nat
         /\ \A j \in 1 .. Len (slots[i]) : slots[i][j] \in Slot \ {Tmp}
         /\ SlotsOf (i) = {slots[i][j] : j \in 1 .. Len (slots[i])}
<1>1. slots[i] \in Seq (Slot \ {Tmp})
  OBVIOUS
<1>2. Len (slots[i]) \in Nat /\ DOMAIN slots[i] = 1 .. Len (slots[i])
  BY <1>1, LenProperties
<1>3. \A j \in 1 .. Len (slots[i]) : slots[i][j] \in Slot \ {Tmp}
  BY <1>1, ElementOfSeq
<1>4. QED
  BY <1>1, <1>2, <1>3 DEF SlotsOf, ToSet

LEMMA FilledIs ==
  ASSUME ItemAssumption, InventoriesAssumption, slots \in [Inventory -> Seq (Slot \ {Tmp})], NEW i \in Inventory,
         NEW b \in Accs, NEW h \in HeapType, NEW D, SlotsOf (i) \subseteq D,
         NEW t \in Slot \cup {None}, NEW o \in Item, NEW n \in Nat, o \in Mutable => n = 1,
         Running (h, b.heap, D, t, o, n, b.rest)
  PROVE  Filled (b, i, o) \in OnWay (b, h, D, t, o, n)
<1> DEFINE A == OnWay (b, h, D, t, o, n)
           list == slots[i]
<1>1. /\ list \in Seq (Slot \ {Tmp}) /\ Len (list) \in Nat
      /\ \A j \in 1 .. Len (list) : list[j] \in Slot /\ list[j] \in D
  BY SlotList
<1> HIDE DEF A
<1>2. FillAllIn (A, list, o)
  <2>1. ASSUME NEW j \in 1 .. Len (list), NEW d \in A
        PROVE  InEmpty (d, list[j], o) \in A
    <3>1. list[j] \in Slot /\ list[j] \in D /\ d \in OnWay (b, h, D, t, o, n)
      BY <1>1 DEF A
    <3>2. Put (d, list[j], o) \in OnWay (b, h, D, t, o, n)
      BY <3>1, PutStays
    <3>3. QED
      BY <3>2 DEF A, InEmpty
  <2>2. QED
    BY <2>1 DEF FillAllIn
<1>3. b \in A
  BY OnWayStarts DEF A
<1>4. Filled (b, i, o) = FillAll (b, list, o)
  BY DEF Filled, FillAll
<1>5. list \in Seq (Slot \ {Tmp})
  BY <1>1
<1> HIDE DEF list
<1>6. FillAll (b, list, o) \in A
  BY <1>2, <1>3, <1>5, FilledRuns
<1>7. QED
  BY <1>4, <1>6 DEF A

\* A slot that has such items is full after the loop unless nothing is left.
Full (b, a, s, o) ==
  Amount (b.heap, s, KindOf[o]) > 0 => a.rest = 0 \/ Amount (a.heap, s, KindOf[o]) = MaxStack (o)

StillEmpty (b, a) == \A u \in Slot : b.heap.count[u] = 0 => a.heap.count[u] = 0

StackedWell (b, a, i, o) == StillEmpty (b, a) /\ \A s \in SlotsOf (i) : Full (b, a, s, o)

LEMMA OnStackStays ==
  ASSUME ItemAssumption, InventoriesAssumption, NEW b \in Accs, NEW h \in HeapType, NEW D,
         NEW t, t = None, NEW o \in Item, NEW n \in Nat, o \in Mutable => n = 1,
         NEW a \in OnWay (b, h, D, t, o, n), NEW s \in Slot, s \in D, StillEmpty (b, a)
  PROVE  /\ StillEmpty (b, OnStack (a, s, o))
         /\ Full (b, OnStack (a, s, o), s, o)
         /\ \A u \in Slot : Full (b, a, u, o) => Full (b, OnStack (a, s, o), u, o)
<1> DEFINE e == OnStack (a, s, o)
           k == KindOf[o]
<1>1. /\ a \in Accs /\ (b.rest = 0 => a = b) /\ Good (a.heap) /\ a.heap \in HeapType /\ b.heap \in HeapType
      /\ \A u \in Slot, j \in Kinds : Amount (a.heap, u, j) >= Amount (b.heap, u, j)
  BY DEF OnWay, Accs, Running
<1>2. t \in Slot \cup {None} /\ k \in Kinds /\ MaxStack (o) \in Nat \ {0}
  BY DEF Kinds, ItemAssumption, MaxStack, Item
<1>3. CASE a.heap.count[s] > 0 /\ Same (a.heap.held[s], o)
  <2> DEFINE f == Put (a, s, o)
             q == Takes (a.heap, s, o, a.rest)
  <2>1. e = f
    BY <1>3 DEF OnStack
  <2>2. /\ f \in OnWay (b, h, D, t, o, n) /\ Added (a.heap, f.heap, s, t, o, q)
        /\ f.rest = a.rest - q /\ a.rest \in Nat /\ (a.rest > 0 => Source (a.heap, o, a.rest, t))
    BY <1>2, PutStays
  <2> HIDE DEF e, f
  <2>3. q \in 0 .. a.rest
    BY <1>1, <2>2, TakesAtMost
  <2>4. Good (f.heap)
    BY <2>2 DEF Added
  <2>5. /\ \A u \in Slot, j \in Kinds : Amount (f.heap, u, j) >= Amount (a.heap, u, j)
        /\ \A u \in Slot \ {s} : a.heap.count[u] = 0 => f.heap.count[u] = 0
        /\ Amount (a.heap, s, k) > 0 => a.rest - q = 0 \/ Amount (f.heap, s, k) = MaxStack (o)
    <3>1. a.rest > 0 => Source (a.heap, o, a.rest, None)
      BY <2>2
    <3>2. Added (a.heap, f.heap, s, None, o, Takes (a.heap, s, o, a.rest))
      BY <2>2
    <3>3. a.rest \in Nat /\ Good (a.heap)
      BY <1>1, <2>2
    <3>4. QED
      BY <3>1, <3>2, <3>3, AddedOnlyAdds
  <2>6. Amount (a.heap, s, k) > 0
    <3>1. a.heap.held[s] # None
      BY <1>1, <1>3, GoodSlot
    <3>2. QED
      BY <1>3, <3>1 DEF Amount, Same
  <2>7. StillEmpty (b, f)
    <3>1. ASSUME NEW u \in Slot, b.heap.count[u] = 0
          PROVE  f.heap.count[u] = 0
      <4>1. a.heap.count[u] = 0
        BY <3>1 DEF StillEmpty
      <4>2. u # s
        BY <1>3, <4>1
      <4>3. QED
        BY <2>5, <4>1, <4>2
    <3>2. QED
      BY <3>1 DEF StillEmpty
  <2>8. Full (b, f, s, o)
    BY <2>2, <2>5, <2>6 DEF Full
  <2>9. ASSUME NEW u \in Slot, Full (b, a, u, o)
        PROVE  Full (b, f, u, o)
    <3>1. Amount (f.heap, u, k) \in 0 .. MaxStack (o) /\ Amount (a.heap, u, k) \in 0 .. MaxStack (o)
      BY <1>1, <2>4, AmountAtMost
    <3>2. Amount (f.heap, u, k) >= Amount (a.heap, u, k)
      BY <1>2, <2>5
    <3>3. a.rest = 0 => f.rest = 0
      BY <2>2, <2>3
    <3>4. QED
      BY <1>2, <2>9, <3>1, <3>2, <3>3 DEF Full
  <2>10. QED
    BY <2>1, <2>7, <2>8, <2>9 DEF e
<1>4. CASE ~ (a.heap.count[s] > 0 /\ Same (a.heap.held[s], o))
  <2>1. e = a
    BY <1>4 DEF OnStack
  <2>2. Full (b, a, s, o)
    <3>1. Amount (a.heap, s, k) = 0
      <4>1. a.heap.count[s] \in Nat /\ (a.heap.held[s] = None <=> a.heap.count[s] = 0)
        BY <1>1, GoodSlot
      <4>2. QED
        BY <1>4, <4>1 DEF Amount, Same
    <3>2. Amount (b.heap, s, k) \in Nat /\ Amount (a.heap, s, k) >= Amount (b.heap, s, k)
      BY <1>1, <1>2, AmountType
    <3>3. QED
      BY <3>1, <3>2 DEF Full
  <2>3. QED
    BY <2>1, <2>2
<1>5. QED
  BY <1>3, <1>4

LEMMA StackedIs ==
  ASSUME ItemAssumption, InventoriesAssumption, slots \in [Inventory -> Seq (Slot \ {Tmp})], NEW i \in Inventory,
         NEW b \in Accs, NEW h \in HeapType, NEW D, SlotsOf (i) \subseteq D,
         NEW t \in Slot \cup {None}, NEW o \in Item, NEW n \in Nat, o \in Mutable => n = 1,
         Running (h, b.heap, D, t, o, n, b.rest)
  PROVE  /\ Stacked (b, i, o) \in OnWay (b, h, D, t, o, n)
         /\ t = None => StackedWell (b, Stacked (b, i, o), i, o)
<1> DEFINE A == OnWay (b, h, D, t, o, n)
           list == slots[i]
           l == Len (list)
           r == Stacked (b, i, o)
<1>1. /\ list \in Seq (Slot \ {Tmp}) /\ l \in Nat
      /\ \A j \in 1 .. l : list[j] \in Slot /\ list[j] \in D
      /\ SlotsOf (i) = {list[j] : j \in 1 .. l}
  BY SlotList
<1>2. b \in A
  BY OnWayStarts
<1>3. b.heap \in HeapType /\ Good (b.heap) /\ MaxStack (o) \in Nat \ {0} /\ b.rest \in Nat
  BY DEF Accs, Running, ItemAssumption, MaxStack, Item
<1> HIDE DEF list, A
<1>4. CASE ~ MaxStack (o) > 1
  <2>1. r = b
    BY <1>4 DEF Stacked
  <2>2. \A s \in SlotsOf (i) : Full (b, b, s, o)
    <3>1. SUFFICES ASSUME NEW s \in SlotsOf (i) PROVE Full (b, b, s, o)
      OBVIOUS
    <3>2. s \in Slot
      BY <1>1
    <3>3. Amount (b.heap, s, KindOf[o]) \in 0 .. MaxStack (o)
      BY <1>3, <3>2, AmountAtMost
    <3>4. QED
      BY <1>3, <1>4, <3>3 DEF Full
  <2>3. QED
    BY <1>2, <2>1, <2>2 DEF A, StillEmpty, StackedWell
<1>5. CASE MaxStack (o) > 1
  <2>1. r = StackAll (b, list, o)
    BY <1>5 DEF Stacked, StackAll, list
  <2>2. StackAllIn (A, list, o)
    <3>1. ASSUME NEW j \in 1 .. l, NEW d \in A
          PROVE  OnStack (d, list[j], o) \in A
      <4>1. list[j] \in Slot /\ list[j] \in D /\ d \in OnWay (b, h, D, t, o, n)
        BY <1>1 DEF A
      <4>2. Put (d, list[j], o) \in OnWay (b, h, D, t, o, n)
        BY <4>1, PutStays
      <4>3. QED
        BY <4>2 DEF A, OnStack
    <3>2. QED
      BY <3>1 DEF StackAllIn
  <2>3. list \in Seq (Slot \ {Tmp})
    BY <1>1
  <2>4. StackAll (b, list, o) \in A /\ \E run : StackAllRun (run, A, b, list, o)
    BY <1>2, <2>2, <2>3, StackedRuns
  <2>7. PICK run : StackAllRun (run, A, b, list, o)
    BY <2>4
  <2>8. run[0] = b /\ run[l] = r /\ \A j \in 1 .. l : run[j - 1] \in A /\ run[j] = OnStack (run[j - 1], list[j], o)
    BY <2>1, <2>7 DEF StackAllRun
  <2> HIDE DEF r, l
  <2>5. ASSUME t = None
        PROVE  StillEmpty (b, r) /\ \A s \in SlotsOf (i) : Full (b, r, s, o)
    <3> DEFINE T == {j \in 0 .. l : StillEmpty (b, run[j]) /\ \A p \in 1 .. j : Full (b, run[j], list[p], o)}
    <3>1. 0 \in T
      <4>1. StillEmpty (b, b)
        BY DEF StillEmpty
      <4>2. QED
        BY <1>1, <2>8, <4>1
    <3>2. ASSUME NEW j \in 1 .. l, j - 1 \in T
          PROVE  j \in T
      <4> DEFINE a == run[j - 1]
                 e == run[j]
      <4>1. StillEmpty (b, a) /\ \A p \in 1 .. j - 1 : Full (b, a, list[p], o)
        BY <3>2
      <4>2. a \in OnWay (b, h, D, t, o, n) /\ e = OnStack (a, list[j], o) /\ list[j] \in Slot /\ list[j] \in D
        BY <1>1, <2>8 DEF A
      <4> HIDE DEF a, e
      <4>3. /\ StillEmpty (b, e) /\ Full (b, e, list[j], o)
            /\ \A u \in Slot : Full (b, a, u, o) => Full (b, e, u, o)
        BY <2>5, <4>1, <4>2, OnStackStays
      <4>4. ASSUME NEW p \in 1 .. j
            PROVE  Full (b, e, list[p], o)
        <5>1. p \in 1 .. l /\ (p # j => p \in 1 .. j - 1)
          BY <1>1
        <5>2. QED
          BY <1>1, <4>1, <4>3, <5>1
      <4>5. j \in 0 .. l
        BY <1>1
      <4>6. QED
        BY <4>3, <4>4, <4>5 DEF e
    <3> HIDE DEF T
    <3>3. \A j \in 0 .. l : j \in T
      BY <1>1, <3>1, <3>2, StepByStep
    <3>4. l \in T
      BY <1>1, <3>3
    <3>5. StillEmpty (b, run[l]) /\ \A p \in 1 .. l : Full (b, run[l], list[p], o)
      BY <3>4 DEF T
    <3>6. QED
      BY <1>1, <2>1, <2>8, <3>5
  <2>6. QED
    BY <2>1, <2>4, <2>5 DEF A, r, StackedWell
<1>6. QED
  BY <1>4, <1>5

\* The slots that inventories may take as new ones.
Fresh == Slot \ (InUse \cup {Tmp})

SpareSlots (list) ==
  /\ list \in Seq (Fresh) /\ Len (list) \in Nat
  /\ \A i \in 1 .. Len (list) : list[i] \in Fresh
  /\ \A i, j \in 1 .. Len (list) : list[i] = list[j] => i = j

LEMMA SpareIs ==
  ASSUME InventoriesAssumption
  PROVE  SpareSlots (Spare)
<1> DEFINE n == Cardinality (Fresh)
<1>1. IsFiniteSet (Fresh)
  <2>1. IsFiniteSet (Slot) /\ Fresh \subseteq Slot
    BY DEF InventoriesAssumption, Fresh
  <2>2. QED
    BY <2>1, FS_Subset
<1>2. n \in Nat /\ ExistsBijection (1 .. n, Fresh)
  BY <1>1, FS_CardinalityType
<1>3. \E f \in [1 .. n -> Fresh] : IsInjective (f)
  BY <1>2 DEF ExistsBijection, Bijection, Injection
<1>4. Spare = CHOOSE f \in [1 .. n -> Fresh] : IsInjective (f)
  BY DEF Spare, SetToSeq, Fresh
<1> HIDE DEF n
<1>5. Spare \in [1 .. n -> Fresh] /\ IsInjective (Spare)
  BY <1>3, <1>4
<1>6. Spare \in Seq (Fresh) /\ Len (Spare) = n
  BY <1>2, <1>5, SeqDef
<1>7. \A i, j \in 1 .. n : Spare[i] = Spare[j] => i = j
  BY <1>5 DEF IsInjective
<1>8. QED
  BY <1>2, <1>5, <1>6, <1>7 DEF SpareSlots

LEMMA AppendSet ==
  ASSUME NEW S, NEW list \in Seq (S), NEW x \in S
  PROVE  Append (list, x) \in Seq (S) /\ ToSet (Append (list, x)) = ToSet (list) \cup {x}
<1> DEFINE m == Append (list, x)
           n == Len (list)
<1>1. /\ m \in Seq (S) /\ Len (m) = n + 1 /\ n \in Nat
      /\ \A i \in 1 .. n : m[i] = list[i]
      /\ m[n + 1] = x
  BY AppendProperties, LenProperties
<1>2. DOMAIN m = 1 .. n + 1 /\ DOMAIN list = 1 .. n
  BY <1>1, LenProperties
<1> HIDE DEF m, n
<1>3. ToSet (m) = {m[i] : i \in 1 .. n + 1} /\ ToSet (list) = {list[i] : i \in 1 .. n}
  BY <1>2 DEF ToSet
<1>4. ToSet (m) = ToSet (list) \cup {x}
  BY <1>1, <1>3
<1>5. QED
  BY <1>1, <1>4 DEF m

LEMMA NoNew ==
  ToSet (<<>>) = {}
BY DEF ToSet

\* What the loop of inventory::add over new slots may make of b.
GrowWay (b, h, D, t, o, n) ==
  {a \in Accs :
     /\ Running (h, a.heap, D \cup ToSet (a.new), t, o, n, a.rest)
     /\ ToSet (a.new) \subseteq Fresh
     /\ b.rest = 0 => a = b
     /\ t = None => \A u \in Slot, j \in Kinds : Amount (a.heap, u, j) >= Amount (b.heap, u, j)}

LEMMA InNewIs ==
  ASSUME ItemAssumption, InventoriesAssumption, NEW b \in Accs, NEW h \in HeapType, NEW D,
         NEW t \in Slot \cup {None}, NEW o \in Item, NEW n \in Nat, o \in Mutable => n = 1,
         NEW a \in GrowWay (b, h, D, t, o, n), NEW s \in Fresh, ~ (a.rest = 0 \/ a.hung)
  PROVE  LET e == InNew (a, s, o)
             q == Takes (a.heap, s, o, a.rest)
         IN  /\ e \in GrowWay (b, h, D, t, o, n)
             /\ Added (a.heap, e.heap, s, t, o, q)
             /\ e.hung = (q = 0)
<1> DEFINE e == InNew (a, s, o)
           q == Takes (a.heap, s, o, a.rest)
           E == D \cup ToSet (a.new)
           w == Append (a.new, s)
           F == D \cup ToSet (w)
<1>1. /\ a \in Accs /\ Running (h, a.heap, E, t, o, n, a.rest) /\ ToSet (a.new) \subseteq Fresh
      /\ b.rest = 0 => a = b
      /\ t = None => \A u \in Slot, j \in Kinds : Amount (a.heap, u, j) >= Amount (b.heap, u, j)
  BY DEF GrowWay
<1>2. a.rest \in Nat /\ a.rest > 0 /\ a.heap \in HeapType /\ b.heap \in HeapType /\ a.new \in Seq (Slot \ {Tmp})
      /\ a.hung \in BOOLEAN /\ a = Acc (a.heap, a.rest, a.new, a.hung)
  BY <1>1 DEF Accs, Acc
<1>3. s \in Slot /\ s \in Slot \ {Tmp}
  BY DEF Fresh
<1>4. w \in Seq (Slot \ {Tmp}) /\ ToSet (w) = ToSet (a.new) \cup {s}
  BY <1>2, <1>3, AppendSet
<1>5. s \in F /\ E \subseteq F
  BY <1>4
<1> HIDE DEF E, F
<1>6. Running (h, a.heap, F, t, o, n, a.rest)
  BY <1>1, <1>5, RunningWider
<1>7. PICK f : /\ AddItems (a.heap, s, o, a.rest) = [heap |-> f, rest |-> a.rest - q]
               /\ q \in 0 .. a.rest
               /\ Running (h, f, F, t, o, n, a.rest - q)
               /\ Added (a.heap, f, s, t, o, q)
  BY <1>3, <1>5, <1>6, RunningGoesOn
<1>8. Put (a, s, o) = Acc (f, a.rest - q, a.new, a.hung)
  BY <1>1, <1>7, PutIs
<1> HIDE DEF q, w
<1>9. e = Acc (f, a.rest - q, w, q = 0)
  <2> DEFINE p == Put (a, s, o)
             y == p.rest = a.rest
             z == q = 0
  <2>1. e = [p EXCEPT !.new = Append (@, s), !.hung = y]
    BY <1>2 DEF InNew
  <2>2. p = Acc (f, a.rest - q, a.new, a.hung)
    BY <1>8
  <2>3. y = z
    <3>1. p.rest = a.rest - q
      BY <2>2 DEF Acc
    <3>2. y <=> z
      BY <1>2, <1>7, <3>1
    <3>3. y \in BOOLEAN /\ z \in BOOLEAN
      OBVIOUS
    <3> HIDE DEF y, z
    <3>4. QED
      BY <3>2, <3>3
  <2> HIDE DEF e, p, y
  <2>4. e = [p EXCEPT !.new = w, !.hung = y]
    BY <2>1, <2>2 DEF w, Acc
  <2> HIDE DEF z
  <2>5. e = Acc (f, a.rest - q, w, z)
    BY <2>2, <2>3, <2>4 DEF Acc
  <2>6. QED
    BY <2>5 DEF z
<1> HIDE DEF e
<1>10. e.heap = f /\ e.rest = a.rest - q /\ e.new = w /\ e.hung = (q = 0)
  BY <1>9 DEF Acc
<1>11. f \in HeapType /\ a.rest - q \in Nat /\ Good (a.heap)
  BY <1>2, <1>7, <1>1 DEF Added, Good, Running
<1>12. e \in Accs
  BY <1>4, <1>9, <1>11 DEF Accs, Acc
<1>13. ToSet (w) \subseteq Fresh
  BY <1>1, <1>4
<1>14. ~ (b.rest = 0)
  BY <1>1, <1>2
<1>15. ASSUME t = None, NEW u \in Slot, NEW j \in Kinds
       PROVE  Amount (e.heap, u, j) >= Amount (b.heap, u, j)
  <2>1. a.rest > 0 => Source (a.heap, o, a.rest, None)
    BY <1>1, <1>15 DEF Running
  <2>2. Added (a.heap, f, s, None, o, Takes (a.heap, s, o, a.rest))
    BY <1>7, <1>15 DEF q
  <2>3. Amount (f, u, j) >= Amount (a.heap, u, j)
    BY <1>2, <1>3, <1>11, <2>1, <2>2, AddedOnlyAdds
  <2>4. Amount (a.heap, u, j) >= Amount (b.heap, u, j)
    BY <1>1, <1>15
  <2>5. Amount (f, u, j) \in Nat /\ Amount (a.heap, u, j) \in Nat /\ Amount (b.heap, u, j) \in Nat
    BY <1>2, <1>11, AmountType
  <2>6. QED
    BY <1>10, <2>3, <2>4, <2>5
<1>16. e \in GrowWay (b, h, D, t, o, n)
  <2>1. Running (h, e.heap, D \cup ToSet (e.new), t, o, n, e.rest)
    BY <1>7, <1>10 DEF F
  <2>2. QED
    BY <1>10, <1>12, <1>13, <1>14, <1>15, <2>1 DEF GrowWay
<1>17. QED
  BY <1>7, <1>10, <1>16 DEF e, q

\* Items that are added do not show up in empty slots they are not added to.
EmptyElsewhere (g, f, s) == \A u \in Slot : u # s /\ g.count[u] = 0 => f.count[u] = 0

LEMMA AddedElsewhere ==
  ASSUME ItemAssumption, NEW g, Good (g), NEW f, NEW s, NEW t \in Slot \cup {None}, NEW o, NEW m \in Nat,
         Added (g, f, s, t, o, m)
  PROVE  EmptyElsewhere (g, f, s)
<1>1. Good (f) /\ f \in HeapType /\ g \in HeapType
  BY DEF Added, Good
<1>2. SUFFICES ASSUME NEW u \in Slot, u # s, g.count[u] = 0 PROVE f.count[u] = 0
  BY DEF EmptyElsewhere
<1>3. \A j \in Kinds : Amount (g, u, j) = 0
  BY <1>2, EmptySlot
<1>4. \A j \in Kinds : Amount (f, u, j) = 0
  <2>1. SUFFICES ASSUME NEW j \in Kinds PROVE Amount (f, u, j) = 0
    OBVIOUS
  <2>2. Amount (f, u, j) = Amount (g, u, j) + (IF u = s /\ j = KindOf[o] THEN m ELSE 0)
                             - (IF u = t /\ j = KindOf[o] THEN m ELSE 0)
    BY DEF Added, Moved
  <2>3. Amount (f, u, j) \in Nat /\ Amount (g, u, j) = 0
    BY <1>1, <1>3, AmountType
  <2>4. QED
    BY <1>2, <2>2, <2>3
<1>5. QED
  BY <1>1, <1>4, EmptySlot

LEMMA GrownIs ==
  ASSUME ItemAssumption, InventoriesAssumption, NEW i,
         NEW b \in Accs, b.new = <<>>, ~ b.hung, NEW h \in HeapType, NEW D,
         NEW t \in Slot \cup {None}, NEW o \in Item, NEW n \in Nat, o \in Mutable => n = 1,
         Running (h, b.heap, D, t, o, n, b.rest), \A u \in Fresh : b.heap.count[u] = 0
  PROVE  /\ Grown (b, i, o) \in GrowWay (b, h, D, t, o, n)
         /\ ~ Grown (b, i, o).hung
<1> DEFINE A == GrowWay (b, h, D, t, o, n)
           list == Spare
           l == Len (list)
           r == Grown (b, i, o)
<1>1. /\ list \in Seq (Fresh) /\ l \in Nat
      /\ \A j \in 1 .. l : list[j] \in Fresh
      /\ \A j, p \in 1 .. l : list[j] = list[p] => j = p
  BY SpareIs DEF SpareSlots
<1>2. b \in A
  <2>1. b.heap \in HeapType
    BY DEF Accs
  <2>2. \A u \in Slot, j \in Kinds : Amount (b.heap, u, j) >= Amount (b.heap, u, j)
    BY <2>1, AmountType
  <2>3. ToSet (b.new) = {}
    BY NoNew
  <2>4. D \cup ToSet (b.new) = D
    BY <2>3
  <2>5. Running (h, b.heap, D \cup ToSet (b.new), t, o, n, b.rest)
    BY <2>4
  <2>6. QED
    BY <2>2, <2>3, <2>5 DEF GrowWay
<1>3. MaxStack (o) \in Nat \ {0}
  BY DEF ItemAssumption, MaxStack, Item
<1> HIDE DEF list, A
<1>4. CASE i \in Limited
  <2>1. r = b
    BY <1>4 DEF Grown
  <2>2. QED
    BY <1>2, <2>1 DEF A
<1>5. CASE i \notin Limited
  <2>1. r = GrowAll (b, list, o)
    BY <1>5 DEF Grown, GrowAll, list
  <2>2. GrowAllIn (A, list, o)
    <3>1. ASSUME NEW j \in 1 .. l, NEW d \in A
          PROVE  InNew (d, list[j], o) \in A
      <4>1. list[j] \in Fresh /\ d \in GrowWay (b, h, D, t, o, n)
        BY <1>1 DEF A
      <4>2. CASE d.rest = 0 \/ d.hung
        BY <4>2 DEF InNew
      <4>3. CASE ~ (d.rest = 0 \/ d.hung)
        <5>1. InNew (d, list[j], o) \in GrowWay (b, h, D, t, o, n)
          BY <4>1, <4>3, InNewIs
        <5>2. QED
          BY <5>1 DEF A
      <4>4. QED
        BY <4>2, <4>3
    <3>2. QED
      BY <3>1 DEF GrowAllIn
  <2>3. list \in Seq (Fresh)
    BY <1>1
  <2>4. GrowAll (b, list, o) \in A /\ \E run : GrowAllRun (run, A, b, list, o)
    BY <1>2, <2>2, <2>3, GrownRuns
  <2>5. PICK run : GrowAllRun (run, A, b, list, o)
    BY <2>4
  <2>6. run[0] = b /\ run[l] = r /\ \A j \in 1 .. l : run[j - 1] \in A /\ run[j] = InNew (run[j - 1], list[j], o)
    BY <2>1, <2>5 DEF GrowAllRun
  <2> HIDE DEF r, l
  <2> DEFINE T == {j \in 0 .. l : ~ run[j].hung /\ \A p \in j + 1 .. l : run[j].heap.count[list[p]] = 0}
  <2>7. 0 \in T
    BY <1>1, <2>6
  <2>8. ASSUME NEW j \in 1 .. l, j - 1 \in T
        PROVE  j \in T
    <3> DEFINE a == run[j - 1]
               e == run[j]
               s == list[j]
    <3>1. ~ a.hung /\ \A p \in j .. l : a.heap.count[list[p]] = 0
      BY <2>8
    <3>2. a \in GrowWay (b, h, D, t, o, n) /\ e = InNew (a, s, o) /\ s \in Fresh /\ a.heap.count[s] = 0
      BY <1>1, <2>6, <3>1 DEF A
    <3>3. j \in 0 .. l /\ \A p \in j + 1 .. l : p \in j .. l /\ p \in 1 .. l /\ p # j
      BY <1>1
    <3> HIDE DEF a, e
    <3>4. CASE a.rest = 0
      <4>1. e = a
        BY <3>2, <3>4 DEF InNew
      <4>2. QED
        BY <3>1, <3>3, <4>1 DEF e
    <3>5. CASE ~ (a.rest = 0)
      <4> DEFINE q == Takes (a.heap, s, o, a.rest)
      <4>1. /\ e \in GrowWay (b, h, D, t, o, n)
            /\ Added (a.heap, e.heap, s, t, o, q)
            /\ e.hung = (q = 0)
        <5>1. ~ (a.rest = 0 \/ a.hung)
          BY <3>1, <3>5
        <5>2. QED
          BY <3>2, <5>1, InNewIs
      <4>2. Good (a.heap) /\ a.rest \in Nat
        BY <3>2 DEF GrowWay, Running, Accs
      <4>3. s \in Slot
        BY <3>2 DEF Fresh
      <4>4. q \in 0 .. a.rest
        BY <4>2, <4>3, TakesAtMost
      <4>5. q # 0
        <5>1. a.heap.held[s] = None
          BY <3>2, <4>2, <4>3, GoodSlot
        <5>2. q = Least (MaxStack (o) - a.heap.count[s], a.rest)
          BY <3>5, <5>1 DEF Takes
        <5>3. QED
          BY <1>3, <3>2, <3>5, <4>2, <5>2 DEF Least
      <4> HIDE DEF q
      <4>6. ASSUME NEW p \in j + 1 .. l
            PROVE  e.heap.count[list[p]] = 0
        <5> DEFINE u == list[p]
        <5>1. u # s /\ u \in Slot /\ a.heap.count[u] = 0
          BY <1>1, <3>1, <3>3 DEF Fresh
        <5>2. q \in Nat
          BY <4>2, <4>4
        <5> HIDE DEF u, s
        <5>3. Added (a.heap, e.heap, s, t, o, q) /\ Good (a.heap)
          BY <4>1, <4>2
        <5>4. u \in Slot /\ u # s /\ a.heap.count[u] = 0
          BY <5>1
        <5> HIDE DEF a, e
        <5>7. EmptyElsewhere (a.heap, e.heap, s)
          BY <5>2, <5>3, AddedElsewhere
        <5>5. e.heap.count[u] = 0
          BY <5>4, <5>7 DEF EmptyElsewhere
        <5>6. QED
          BY <5>5 DEF u
      <4>7. QED
        BY <3>3, <4>1, <4>5, <4>6 DEF e
    <3>6. QED
      BY <3>4, <3>5
  <2> HIDE DEF T
  <2>9. \A j \in 0 .. l : j \in T
    BY <1>1, <2>7, <2>8, StepByStep DEF l
  <2>10. l \in T
    BY <1>1, <2>9 DEF l
  <2>11. ~ run[l].hung
    BY <2>10 DEF T
  <2>12. QED
    BY <2>1, <2>4, <2>6, <2>11 DEF A, r
<1>6. QED
  BY <1>4, <1>5

\* inventory::add puts all but the rest of n items o that come from t into
\* the slots of inventory i and into new ones, and returns.
InvAdded (h, r, i, t, o, n) ==
  /\ r.rest \in 0 .. n /\ ~ r.hung /\ r.hung \in BOOLEAN
  /\ r.new \in Seq (Slot \ {Tmp}) /\ ToSet (r.new) \subseteq Fresh
  /\ Running (h, r.heap, SlotsOf (i) \cup ToSet (r.new), t, o, n, r.rest)

\* It uses slots that have such items first.
InvStacked (h, r, i, o) ==
  LET taken == {s \in SlotsOf (i) : h.count[s] = 0 /\ r.heap.count[s] > 0}
  IN  taken # {} \/ r.new # <<>> =>
        \A s \in SlotsOf (i) \ taken :
          h.held[s] # None /\ Same (h.held[s], o) => r.heap.count[s] = MaxStack (o)

LEMMA InvAddIs ==
  ASSUME ItemAssumption, InventoriesAssumption, slots \in [Inventory -> Seq (Slot \ {Tmp})], NEW i \in Inventory,
         NEW h, Good (h), NEW t \in Slot \cup {None}, t \notin Fresh,
         NEW o \in Item, NEW n \in Nat, o \in Mutable => n = 1,
         n > 0 => Source (h, o, n, t), \A u \in Fresh : h.count[u] = 0
  PROVE  /\ InvAdded (h, InvAdd (h, i, o, n), i, t, o, n)
         /\ t = None => InvStacked (h, InvAdd (h, i, o, n), i, o)
<1> DEFINE D == SlotsOf (i)
           a == Acc (h, n, <<>>, FALSE)
           b == Stacked (a, i, o)
           c == Filled (b, i, o)
           r == Grown (c, i, o)
<1>1. h \in HeapType
  BY DEF Good
<1>2. a \in Accs /\ a.heap = h /\ a.rest = n /\ a.new = <<>> /\ ~ a.hung
  BY <1>1 DEF Accs, Acc
<1>3. InvAdd (h, i, o, n) = r
  BY DEF InvAdd, Acc
<1>4. D \subseteq Slot /\ D \cap Fresh = {}
  <2>1. /\ \A j \in 1 .. Len (slots[i]) : slots[i][j] \in Slot \ {Tmp}
        /\ SlotsOf (i) = {slots[i][j] : j \in 1 .. Len (slots[i])}
    BY SlotList
  <2>2. D \subseteq InUse
    BY DEF InUse
  <2>3. QED
    BY <2>1, <2>2 DEF Fresh
<1>5. Running (h, a.heap, D, t, o, n, a.rest)
  <2>1. Running (h, h, D, t, o, n, n)
    BY RunningStarts
  <2>2. QED
    BY <1>2, <2>1
<1>19. SlotsOf (i) \subseteq D /\ SlotsOf (i) = D
  OBVIOUS
<1>20. b = Stacked (a, i, o)
  OBVIOUS
<1> HIDE DEF a, D, b, c, r
<1>6. /\ b \in OnWay (a, h, D, t, o, n)
      /\ t = None => StackedWell (a, b, i, o)
  <2>1. /\ a \in Accs /\ h \in HeapType /\ SlotsOf (i) \subseteq D
        /\ Running (h, a.heap, D, t, o, n, a.rest)
    BY <1>1, <1>2, <1>5, <1>19
  <2>2. /\ Stacked (a, i, o) \in OnWay (a, h, D, t, o, n)
        /\ t = None => StackedWell (a, Stacked (a, i, o), i, o)
    BY <2>1, StackedIs, ZenonT (60)
  <2>3. QED
    BY <1>20, <2>2
<1> USE DEF c, r
<1>7. /\ b \in Accs /\ b.new = <<>> /\ ~ b.hung /\ Running (h, b.heap, D, t, o, n, b.rest)
      /\ t = None => \A u \in Slot, j \in Kinds : Amount (b.heap, u, j) >= Amount (a.heap, u, j)
  BY <1>2, <1>6 DEF OnWay
<1>8. c \in OnWay (b, h, D, t, o, n)
  BY <1>1, <1>7, <1>19, FilledIs
<1> HIDE DEF c
<1>9. /\ c \in Accs /\ c.new = <<>> /\ ~ c.hung /\ Running (h, c.heap, D, t, o, n, c.rest)
      /\ b.rest = 0 => c = b
      /\ t = None => \A u \in Slot, j \in Kinds : Amount (c.heap, u, j) >= Amount (b.heap, u, j)
  BY <1>7, <1>8 DEF OnWay
<1>10. c.heap \in HeapType /\ Good (c.heap) /\ Flow (h, c.heap, D, t, KindOf[o], n - c.rest)
  BY <1>9 DEF Running, Good
<1>11. ASSUME NEW u \in Fresh
       PROVE  c.heap.count[u] = 0
  <2>1. u \in Slot /\ u \notin D \cup {t}
    BY <1>4 DEF Fresh
  <2>2. \A j \in Kinds : Amount (c.heap, u, j) = Amount (h, u, j)
    BY <1>10, <2>1 DEF Flow
  <2>3. \A j \in Kinds : Amount (h, u, j) = 0
    BY <2>1, EmptySlot
  <2>4. QED
    BY <1>10, <2>1, <2>2, <2>3, EmptySlot
<1>12. r \in GrowWay (c, h, D, t, o, n) /\ ~ r.hung
  BY <1>1, <1>9, <1>11, GrownIs
<1> HIDE DEF r
<1>13. /\ r \in Accs /\ ToSet (r.new) \subseteq Fresh
       /\ Running (h, r.heap, D \cup ToSet (r.new), t, o, n, r.rest)
       /\ c.rest = 0 => r = c
       /\ t = None => \A u \in Slot, j \in Kinds : Amount (r.heap, u, j) >= Amount (c.heap, u, j)
  BY <1>12 DEF GrowWay
<1>14. r.rest \in 0 .. n /\ Good (r.heap) /\ r.heap \in HeapType
  BY <1>13 DEF Running, Good
<1>15. r.new \in Seq (Slot \ {Tmp}) /\ r.hung \in BOOLEAN
  BY <1>13 DEF Accs
<1>16. InvAdded (h, r, i, t, o, n)
  BY <1>12, <1>13, <1>14, <1>15 DEF InvAdded, D
<1>17. ASSUME t = None
       PROVE  InvStacked (h, r, i, o)
  <2> DEFINE taken == {s \in D : h.count[s] = 0 /\ r.heap.count[s] > 0}
  <2>1. CASE b.rest = 0
    <3>1. r = b
      BY <1>9, <1>13, <2>1
    <3>2. r.new = <<>>
      BY <1>7, <3>1
    <3>3. taken = {}
      <4>1. ASSUME NEW s \in D, h.count[s] = 0, r.heap.count[s] > 0
            PROVE  FALSE
        <5>1. s \in Slot /\ a.heap.count[s] = 0
          BY <1>2, <1>4, <4>1
        <5>2. b.heap.count[s] = 0
          BY <1>6, <1>17, <5>1 DEF StillEmpty, StackedWell
        <5>3. QED
          BY <3>1, <4>1, <5>2
      <4>2. QED
        BY <4>1
    <3>4. QED
      BY <3>2, <3>3 DEF InvStacked, D
  <2>2. CASE b.rest # 0
    <3>1. ASSUME NEW s \in D, h.held[s] # None, Same (h.held[s], o)
          PROVE  r.heap.count[s] = MaxStack (o)
      <4> DEFINE k == KindOf[o]
      <4>1. s \in Slot /\ k \in Kinds /\ MaxStack (o) \in Nat \ {0}
        BY <1>4 DEF Kinds, ItemAssumption, MaxStack, Item
      <4>2. Amount (a.heap, s, k) > 0
        <5>1. h.count[s] # 0 /\ h.count[s] \in Nat
          BY <3>1, <4>1, GoodSlot
        <5>2. Amount (h, s, k) = h.count[s]
          BY <3>1 DEF Amount, Same
        <5>3. QED
          BY <1>2, <5>1, <5>2
      <4>3. Amount (b.heap, s, k) = MaxStack (o)
        BY <1>6, <1>17, <1>19, <2>2, <4>2 DEF Full, StackedWell
      <4>4. Amount (c.heap, s, k) >= Amount (b.heap, s, k) /\ Amount (r.heap, s, k) >= Amount (c.heap, s, k)
        BY <1>9, <1>13, <1>17, <4>1
      <4>5. Amount (r.heap, s, k) \in 0 .. MaxStack (o)
        BY <1>14, <4>1, AmountAtMost
      <4>6. Amount (c.heap, s, k) \in Nat
        BY <1>10, <4>1, AmountType
      <4>7. Amount (r.heap, s, k) = MaxStack (o)
        BY <4>1, <4>3, <4>4, <4>5, <4>6
      <4>8. QED
        BY <4>1, <4>7 DEF Amount
    <3>2. QED
      BY <3>1 DEF InvStacked, D
  <2>3. QED
    BY <2>1, <2>2
<1>18. QED
  BY <1>3, <1>16, <1>17

-----------------------------------------------------------------------------
(* Taking items out of slots. *)

\* The mutable items that come out with o are a stack in no slot.
Out (h, g, s, o, n) ==
  \E c : /\ Loose (g, c, n) /\ c[1] = o
         /\ \A i \in 1 .. n : c[i] \in Mutable /\ h.slot[c[i]] = s
         /\ Free (g) = Free (h) \cup Elements (c, n)

\* What is below mutable items that stay out of the slots, and the slots
\* shared items but o were last seen in.
FrameBut (h, g, o) ==
  /\ \A p \in Free (h) \cap Free (g) : g.next[p] = h.next[p]
  /\ \A k \in Shared : k # o => g.slot[k] = h.slot[k]

\* The other slots have what they had.
Beside (h, g, s) ==
  /\ \A u \in Slot : u # s => g.held[u] = h.held[u]
  /\ \A p \in Mutable : h.slot[p] # s => g.slot[p] = h.slot[p]

\* The topmost n items of slot s, the first of which is o, were taken out.
Removed (h, g, s, o, n) ==
  /\ Good (g)
  /\ Moved (h, g, None, s, KindOf[o], n)
  /\ FrameBut (h, g, o)
  /\ Beside (h, g, s)
  /\ IF o \in Mutable THEN Out (h, g, s, o, n) ELSE Free (g) = Free (h)

LEMMA TakenOffBeside ==
  ASSUME NEW h \in HeapType, NEW s \in Slot, NEW c, NEW n, \A i \in 1 .. n : h.slot[c[i]] = s
  PROVE  Beside (h, TakenOff (h, c, s, n), s)
<1>1. \A p \in Elements (c, n) : h.slot[p] = s
  BY DEF Elements
<1> DEFINE slot == [p \in Item |-> IF p \in Elements (c, n) THEN None ELSE h.slot[p]]
           held == [h.held EXCEPT ![s] = IF n = h.count[s] THEN None ELSE c[n + 1]]
<1>2. TakenOff (h, c, s, n).slot = slot /\ TakenOff (h, c, s, n).held = held
  BY DEF TakenOff, Heap
<1>3. \A p \in Mutable : h.slot[p] # s => slot[p] = h.slot[p]
  BY <1>1 DEF Item
<1>4. \A u \in Slot : u # s => held[u] = h.held[u]
  BY HeapIs
<1> HIDE DEF slot, held
<1>5. QED
  BY <1>2, <1>3, <1>4 DEF Beside

LEMMA SharedOffBeside ==
  ASSUME NEW h \in HeapType, NEW s \in Slot, NEW n
  PROVE  Beside (h, SharedOff (h, s, n), s)
<1> DEFINE held == [h.held EXCEPT ![s] = IF n = h.count[s] THEN None ELSE h.held[s]]
<1>1. SharedOff (h, s, n).slot = h.slot /\ SharedOff (h, s, n).held = held
  BY DEF SharedOff, Heap
<1>2. \A u \in Slot : u # s => held[u] = h.held[u]
  BY HeapIs
<1> HIDE DEF held
<1>3. QED
  BY <1>1, <1>2 DEF Beside

LEMMA RemovedIs ==
  ASSUME ItemAssumption, NEW h, Good (h), NEW s \in Slot, NEW o \in Item, h.held[s] = o, NEW n \in 1 .. h.count[s]
  PROVE  \E g : RemoveItems (h, s, o, n) = [heap |-> g, rest |-> 0] /\ Removed (h, g, s, o, n) /\ Frame (h, g)
<1>1. h \in HeapType /\ h.count[s] \in Nat
  BY GoodSlot
<1>2. CASE o \in Mutable
  <2>1. PICK c : Filed (h, c, s)
    BY DEF Good
  <2> DEFINE g == TakenOff (h, c, s, n)
  <2>2. h.held[s] \in Mutable
    BY <1>2
  <2>3. RemoveItems (h, s, h.held[s], n) = [heap |-> g, rest |-> 0]
    BY <2>1, <2>2, RemoveItemsIs
  <2>4. Good (g) /\ Loose (g, c, n) /\ Moved (h, g, None, s, KindOf[h.held[s]], n)
        /\ Free (g) = Free (h) \cup Elements (c, n) /\ Frame (h, g)
    BY <2>1, <2>2, TakenOffGood
  <2> HIDE DEF g
  <2>5. c[1] = o /\ \A i \in 1 .. h.count[s] : c[i] \in Mutable /\ h.slot[c[i]] = s
    BY <2>1, <2>2, FiledItems
  <2>6. \A i \in 1 .. n : c[i] \in Mutable /\ h.slot[c[i]] = s
    BY <1>1, <2>5
  <2>7. Out (h, g, s, o, n)
    BY <2>4, <2>5, <2>6 DEF Out
  <2>10. Beside (h, g, s)
    BY <1>1, <2>6, TakenOffBeside DEF g
  <2>8. Removed (h, g, s, o, n)
    BY <1>2, <2>4, <2>7, <2>10 DEF Removed, Frame, FrameBut
  <2>9. QED
    BY <2>3, <2>4, <2>8
<1>3. CASE o \notin Mutable
  <2> DEFINE g == SharedOff (h, s, n)
  <2>1. o \in Shared /\ KindOf[o] = o
    BY <1>3 DEF Item, ItemAssumption
  <2>2. Good (g) /\ Free (g) = Free (h) /\ Frame (h, g) /\ Moved (h, g, None, s, o, n)
    BY <2>1, SharedOffIs
  <2>3. RemoveItems (h, s, o, n) = [heap |-> g, rest |-> 0]
    <3> DEFINE less == [h EXCEPT !.count[s] = @ - n]
    <3>1. (IF h.count[s] > n THEN n ELSE h.count[s]) = n /\ n # 0 /\ n - n = 0
      BY <1>1
    <3>2. RemoveItems (h, s, o, n) = RemoveTop (h, s, o, n)
      BY <3>1 DEF RemoveItems
    <3>3. RemoveTop (h, s, o, n) = [heap |-> [less EXCEPT !.held[s] = IF less.count[s] = 0 THEN None ELSE o],
                                    rest |-> 0]
      BY <1>3, <3>1 DEF RemoveTop
    <3>4. h = Heap (h.held, h.count, h.next, h.slot) /\ h.held \in [Slot -> Item \cup {None}] /\ h.count \in [Slot -> Nat]
      BY <1>1, HeapIs
    <3>5. less = Heap (h.held, [h.count EXCEPT ![s] = h.count[s] - n], h.next, h.slot)
      BY <3>4 DEF Heap
    <3>6. less.count[s] = 0 <=> n = h.count[s]
      BY <1>1, <3>4, <3>5 DEF Heap
    <3> HIDE DEF less
    <3>7. [less EXCEPT !.held[s] = IF less.count[s] = 0 THEN None ELSE o] = g
      BY <3>4, <3>5, <3>6 DEF Heap, SharedOff
    <3>8. QED
      BY <3>2, <3>3, <3>7
  <2> HIDE DEF g
  <2>6. Beside (h, g, s)
    BY <1>1, SharedOffBeside DEF g
  <2>4. Removed (h, g, s, o, n)
    BY <1>3, <2>1, <2>2, <2>6 DEF Removed, Frame, FrameBut
  <2>5. QED
    BY <2>2, <2>3, <2>4
<1>4. QED
  BY <1>2, <1>3

LEMMA MovedLike ==
  ASSUME NEW h, NEW g, NEW f, NEW s, NEW t, NEW k, NEW n, Moved (h, g, s, t, k, n),
         \A u \in Slot, j \in Kinds : Amount (f, u, j) = Amount (g, u, j)
  PROVE  Moved (h, f, s, t, k, n)
BY DEF Moved

LEMMA LikeMoved ==
  ASSUME NEW h, NEW g, NEW f, NEW s, NEW t, NEW k, NEW n, Moved (g, f, s, t, k, n),
         \A u \in Slot, j \in Kinds : Amount (g, u, j) = Amount (h, u, j)
  PROVE  Moved (h, f, s, t, k, n)
BY DEF Moved

\* Nothing but the slots of shared items differs, and only that of o.
LikeBut (h, g, o) == Like (h, g) /\ \A k \in Shared : k # o => g.slot[k] = h.slot[k]

LEMMA RemovedAfterLike ==
  ASSUME ItemAssumption, NEW h, Good (h), NEW g, NEW f, NEW s, NEW o, NEW n, LikeBut (h, g, o),
         Removed (g, f, s, o, n)
  PROVE  Removed (h, f, s, o, n)
<1>1. Like (h, g) /\ Good (g) /\ Free (g) = Free (h) /\ \A u \in Slot, j \in Kinds : Amount (g, u, j) = Amount (h, u, j)
  BY LikeGood DEF LikeBut
<1>2. Moved (h, f, None, s, KindOf[o], n)
  BY <1>1, LikeMoved DEF Removed
<1>3. g.next = h.next /\ g.held = h.held /\ \A p \in Mutable : g.slot[p] = h.slot[p]
  BY <1>1 DEF Like
<1>7. Beside (h, f, s)
  BY <1>3 DEF Removed, Beside
<1>4. FrameBut (h, f, o)
  BY <1>1, <1>3 DEF Removed, FrameBut, LikeBut
<1>5. Out (g, f, s, o, n) => Out (h, f, s, o, n)
  BY <1>1, <1>3 DEF Out
<1>6. QED
  BY <1>1, <1>2, <1>4, <1>5, <1>7 DEF Removed

LEMMA LikeAfterRemoved ==
  ASSUME ItemAssumption, NEW h, NEW g, NEW f, NEW s, NEW o, NEW n \in Nat, Removed (h, g, s, o, n),
         LikeBut (g, f, o)
  PROVE  Removed (h, f, s, o, n)
<1>1. Good (g) /\ Like (g, f)
  BY DEF Removed, LikeBut
<1>2. Good (f) /\ Free (f) = Free (g) /\ \A u \in Slot, j \in Kinds : Amount (f, u, j) = Amount (g, u, j)
  BY <1>1, LikeGood
<1>3. Moved (h, f, None, s, KindOf[o], n)
  BY <1>2, MovedLike DEF Removed
<1>4. f.next = g.next /\ f.held = g.held /\ \A p \in Mutable : f.slot[p] = g.slot[p]
  BY <1>1 DEF Like
<1>8. Beside (h, f, s)
  BY <1>4 DEF Removed, Beside
<1>5. FrameBut (h, f, o)
  BY <1>2, <1>4 DEF Removed, FrameBut, LikeBut
<1>6. Out (h, g, s, o, n) => Out (h, f, s, o, n)
  <2>1. \A c : Loose (g, c, n) => Loose (f, c, n)
    BY <1>1, LikeGood
  <2>2. QED
    BY <1>2, <2>1 DEF Out
<1>7. QED
  BY <1>2, <1>3, <1>5, <1>6, <1>8 DEF Removed

LEMMA UnequipIs ==
  ASSUME ItemAssumption, NEW h, Good (h), NEW t \in Slot, NEW o \in Item, h.held[t] = o, NEW n \in 1 .. h.count[t]
  PROVE  \E g : /\ Unequip (h, t, n) = [heap |-> g, item |-> o, count |-> n]
                /\ Removed (h, g, t, o, n)
                /\ o \in Shared => g.slot[o] = None
<1> DEFINE e == GetItem (h, t)
<1>1. h \in HeapType /\ h.count[t] \in Nat /\ o # None
  BY GoodSlot DEF ItemAssumption, Item
<1>2. Like (h, e) /\ (\A k \in Shared : k # o => e.slot[k] = h.slot[k])
  BY GetItemIs
<1> HIDE DEF e
<1>3. Good (e) /\ LikeBut (h, e, o) /\ e.held[t] = o /\ n \in 1 .. e.count[t]
  BY <1>2, LikeGood DEF LikeBut, Like
<1>4. PICK f : RemoveItems (e, t, o, n) = [heap |-> f, rest |-> 0] /\ Removed (e, f, t, o, n)
  BY <1>3, RemovedIs
<1>5. Removed (h, f, t, o, n) /\ Good (f) /\ f \in HeapType
  <2>1. Removed (h, f, t, o, n)
    BY <1>3, <1>4, RemovedAfterLike
  <2>2. QED
    BY <2>1 DEF Removed, Good
<1> DEFINE g == SetSlot (f, o, None)
<1>6. Unequip (h, t, n) = [heap |-> g, item |-> o, count |-> n]
  <2>1. n - 0 = n
    OBVIOUS
  <2> HIDE DEF g
  <2>2. RemoveItems (GetItem (h, t), t, h.held[t], n) = [heap |-> f, rest |-> 0]
    BY <1>4 DEF e
  <2>3. Unequip (h, t, n) = [heap |-> SetSlot (f, o, None), item |-> o, count |-> n - 0]
    BY <2>2 DEF Unequip
  <2>4. QED
    BY <2>1, <2>3 DEF g
<1>7. LikeBut (f, g, o) /\ (o \in Shared => g.slot[o] = None)
  <2>1. CASE o \in Mutable
    <3>1. PICK c : Loose (f, c, n) /\ c[1] = o
      BY <1>5, <2>1 DEF Removed, Out
    <3>2. n \in Nat \ {0} /\ Chain (f, c, n)
      BY <1>1, <3>1 DEF Loose
    <3>3. SetSlot (f, c[1], None) =
            Heap (f.held, f.count, f.next, [p \in Item |-> IF p \in Elements (c, n) THEN None ELSE f.slot[p]])
      BY <1>5, <3>2, SetSlotIs
    <3>4. \A p \in Elements (c, n) : f.slot[p] = None
      BY <3>1 DEF Elements, Loose
    <3>5. f.slot \in [Item -> Slot \cup {None}] /\ f = Heap (f.held, f.count, f.next, f.slot)
      BY <1>5, HeapIs
    <3>6. [p \in Item |-> IF p \in Elements (c, n) THEN None ELSE f.slot[p]] = f.slot
      BY <3>4, <3>5
    <3>7. g = f
      BY <3>1, <3>3, <3>5, <3>6
    <3> HIDE DEF g
    <3>8. Like (f, g)
      BY <1>5, <3>7, LikeItself
    <3>9. o \notin Shared
      BY <2>1 DEF ItemAssumption
    <3>10. QED
      BY <3>7, <3>8, <3>9 DEF LikeBut
  <2>2. CASE o \notin Mutable
    <3>1. o \in Shared
      BY <2>2 DEF Item
    <3>2. Stack (f, o) = {o}
      <4>1. f.next \in [Mutable -> Mutable \cup {None}]
        BY <1>5, HeapIs
      <4>2. Stack (f, o) = {o} \ {None}
        BY <2>2, <4>1, StackOfOther
      <4>3. QED
        BY <1>1, <4>2
    <3>3. f.slot \in [Item -> Slot \cup {None}] /\ f = Heap (f.held, f.count, f.next, f.slot)
      BY <1>5, HeapIs
    <3>4. g = Told (f, o, None)
      <4>1. [p \in Item |-> IF p \in {o} THEN None ELSE f.slot[p]] = [f.slot EXCEPT ![o] = None]
        BY <3>1, <3>3
      <4>2. SetSlot (f, o, None) = [f EXCEPT !.slot = [p \in Item |-> IF p \in {o} THEN None ELSE f.slot[p]]]
        BY <3>2 DEF SetSlot
      <4>3. Told (f, o, None) = [f EXCEPT !.slot = [f.slot EXCEPT ![o] = None]]
        BY <3>3 DEF Told, Heap
      <4>4. QED
        BY <4>1, <4>2, <4>3
    <3> HIDE DEF g
    <3>5. None \in Slot \cup {None}
      OBVIOUS
    <3>6. Like (f, g) /\ g.slot = [f.slot EXCEPT ![o] = None] /\ g.slot[o] = None
      BY <1>5, <3>1, <3>4, <3>5, ToldIs
    <3>7. QED
      BY <3>1, <3>3, <3>6 DEF LikeBut, Item
  <2>3. QED
    BY <2>1, <2>2
<1> HIDE DEF g
<1>8. n \in Nat
  BY <1>1
<1>9. Removed (h, g, t, o, n)
  BY <1>5, <1>7, <1>8, LikeAfterRemoved
<1>10. QED
  BY <1>6, <1>7, <1>9

-----------------------------------------------------------------------------
(* Destroying items. *)

\* Item i of the list c, which is not on top of slot s, is taken out.
Inner (h, c, s, i) ==
  Heap (h.held, [h.count EXCEPT ![s] = h.count[s] - 1],
        [p \in Mutable |-> IF p = c[i - 1] THEN h.next[c[i]] ELSE IF p = c[i] THEN None ELSE h.next[p]],
        [h.slot EXCEPT ![c[i]] = None])

Shorter (c, i, m) == [j \in 1 .. m - 1 |-> IF j < i THEN c[j] ELSE c[j + 1]]

LEMMA InnerIs ==
  ASSUME ItemAssumption, NEW h, Good (h), NEW s \in Slot, NEW c, Filed (h, c, s), h.held[s] \in Mutable,
         NEW i \in 2 .. h.count[s]
  PROVE  RemoveItems (h, s, c[i], 1) = [heap |-> Inner (h, c, s, i), rest |-> 0]
<1> DEFINE o == c[i]
           m == h.count[s]
<1>1. /\ h \in HeapType /\ m \in Nat \ {0} /\ Chain (h, c, m) /\ h.held[s] = c[1]
      /\ \A j \in 1 .. m : c[j] \in Mutable
  BY FiledItems
<1>2. i \in 1 .. m /\ i - 1 \in 1 .. m /\ 1 \in 1 .. m /\ i # 1 /\ 1 - 1 = 0
  BY <1>1
<1>3. /\ h = Heap (h.held, h.count, h.next, h.slot) /\ h.next \in [Mutable -> Mutable \cup {None}]
      /\ h.count \in [Slot -> Nat] /\ h.slot \in [Item -> Slot \cup {None}]
  BY <1>1, HeapIs
<1>4. \A j, l \in 1 .. m : c[j] = c[l] => j = l
  BY <1>1 DEF Chain
<1>5. h.held[s] # o
  BY <1>1, <1>2, <1>4
<1>6. Stack (h, h.held[s]) = Elements (c, m)
  BY <1>1, <1>3, ChainStack
<1>7. {p \in Elements (c, m) \cap Mutable : h.next[p] = o} = {c[i - 1]}
  <2>1. c[i - 1] \in Elements (c, m) /\ c[i - 1] \in Mutable /\ h.next[c[i - 1]] = o
    <3>1. i - 1 # m /\ (i - 1) + 1 = i
      BY <1>1
    <3>2. QED
      BY <1>1, <1>2, <3>1 DEF Elements, Chain
  <2>2. ASSUME NEW p \in Elements (c, m), h.next[p] = o
        PROVE  p = c[i - 1]
    <3>1. PICK j \in 1 .. m : p = c[j]
      BY DEF Elements
    <3>2. o \in Mutable /\ None \notin Mutable
      BY <1>1, <1>2 DEF ItemAssumption
    <3>3. j # m /\ c[j + 1] = c[i]
      BY <1>1, <2>2, <3>1, <3>2 DEF Chain
    <3>4. j + 1 \in 1 .. m
      BY <1>1, <3>3
    <3>5. j + 1 = i
      BY <1>2, <1>4, <3>3, <3>4
    <3>6. j = i - 1
      BY <1>1, <3>5
    <3>7. QED
      BY <3>1, <3>6
  <2> HIDE DEF o
  <2>3. QED
    BY <2>1, <2>2
<1>8. RemoveItems (h, s, o, 1) = RemoveInner (h, s, o, 1)
  BY <1>5 DEF RemoveItems
<1> DEFINE x == {c[i - 1]}
<1>9. RemoveInner (h, s, o, 1) =
        [heap |-> [h EXCEPT
              !.next = [p \in Mutable |-> IF p \in x THEN h.next[o]
                                          ELSE IF p = o THEN None ELSE @[p]],
              !.slot[o] = None, !.count[s] = @ - 1],
            rest |-> 1 - 1]
  <2>1. x # {}
    OBVIOUS
  <2>2. {p \in Stack (h, h.held[s]) \cap Mutable : h.next[p] = o} = x
    BY <1>6, <1>7
  <2> HIDE DEF x, o
  <2>3. QED
    BY <2>1, <2>2 DEF RemoveInner
<1>10. [h EXCEPT
              !.next = [p \in Mutable |-> IF p \in x THEN h.next[o]
                                          ELSE IF p = o THEN None ELSE @[p]],
              !.slot[o] = None, !.count[s] = @ - 1] = Inner (h, c, s, i)
  <2> DEFINE f == [p \in Mutable |-> IF p \in x THEN h.next[o] ELSE IF p = o THEN None ELSE h.next[p]]
             g == [p \in Mutable |-> IF p = c[i - 1] THEN h.next[o] ELSE IF p = o THEN None ELSE h.next[p]]
  <2>1. f = g
    OBVIOUS
  <2> HIDE DEF x, o
  <2>2. [h EXCEPT
              !.next = [p \in Mutable |-> IF p \in x THEN h.next[o]
                                          ELSE IF p = o THEN None ELSE @[p]],
              !.slot[o] = None, !.count[s] = @ - 1]
        = [h EXCEPT !.next = f, !.slot[o] = None, !.count[s] = @ - 1]
    BY <1>3 DEF Heap
  <2> HIDE DEF f
  <2>5. [h EXCEPT !.next = f, !.slot[o] = None, !.count[s] = @ - 1]
        = Heap (h.held, [h.count EXCEPT ![s] = h.count[s] - 1], f, [h.slot EXCEPT ![o] = None])
    <3> DEFINE h1 == [h EXCEPT !.next = f]
               h2 == [h1 EXCEPT !.slot[o] = None]
               h3 == [h2 EXCEPT !.count[s] = @ - 1]
    <3>1. h1 = Heap (h.held, h.count, f, h.slot)
      BY <1>3 DEF Heap
    <3> HIDE DEF h1
    <3>2. h2 = Heap (h.held, h.count, f, [h.slot EXCEPT ![o] = None])
      BY <3>1 DEF Heap
    <3> HIDE DEF h2
    <3>3. h3 = Heap (h.held, [h.count EXCEPT ![s] = h.count[s] - 1], f, [h.slot EXCEPT ![o] = None])
      BY <3>2 DEF Heap
    <3> HIDE DEF h3
    <3>4. [h EXCEPT !.next = f, !.slot[o] = None, !.count[s] = @ - 1] = h3
      BY DEF h1, h2, h3
    <3>5. QED
      BY <3>3, <3>4
  <2>3. Inner (h, c, s, i) = Heap (h.held, [h.count EXCEPT ![s] = h.count[s] - 1], g, [h.slot EXCEPT ![o] = None])
    BY DEF Inner, o
  <2> HIDE DEF g
  <2>4. QED
    BY <2>1, <2>2, <2>3, <2>5
<1>11. QED
  BY <1>2, <1>8, <1>9, <1>10

LEMMA InnerGood ==
  ASSUME ItemAssumption, NEW h, Good (h), NEW s \in Slot, NEW c, Filed (h, c, s), h.held[s] \in Mutable,
         NEW i \in 2 .. h.count[s]
  PROVE  Removed (h, Inner (h, c, s, i), s, c[i], 1) /\ Frame (h, Inner (h, c, s, i))
<1> DEFINE o == c[i]
           m == h.count[s]
           g == Inner (h, c, s, i)
           d == Shorter (c, i, m)
<1>1. /\ h \in HeapType /\ m \in Nat \ {0} /\ Chain (h, c, m) /\ h.held[s] = c[1]
      /\ \A j \in 1 .. m : c[j] \in Mutable /\ h.slot[c[j]] = s /\ KindOf[c[j]] = KindOf[h.held[s]]
      /\ \A p \in Mutable : h.slot[p] = s => \E j \in 1 .. m : c[j] = p
      /\ m <= MaxStack (h.held[s])
  BY FiledItems
<1>2. i \in 1 .. m /\ i - 1 \in 1 .. m /\ 1 \in 1 .. m /\ i # 1 /\ i - 1 # m /\ m - 1 \in Nat /\ m - 1 # 0 /\ i - 1 # i
      /\ m \in Nat /\ i \in Nat
  BY <1>1
<1>3. /\ h.held \in [Slot -> Item \cup {None}] /\ h.next \in [Mutable -> Mutable \cup {None}]
      /\ h.count \in [Slot -> Nat] /\ h.slot \in [Item -> Slot \cup {None}]
  BY <1>1, HeapIs
<1>4. /\ \A j, l \in 1 .. m : c[j] = c[l] => j = l
      /\ \A j \in 1 .. m : h.next[c[j]] = IF j = m THEN None ELSE c[j + 1]
  BY <1>1 DEF Chain
<1>5. /\ o \in Mutable /\ c[i - 1] \in Mutable /\ o # c[i - 1] /\ o \in Item /\ c[1] \in Mutable
      /\ h.slot[o] = s /\ h.slot[c[i - 1]] = s /\ o \notin Shared
      /\ KindOf[o] = KindOf[h.held[s]] /\ None \notin Slot /\ None \notin Mutable /\ c[1] # None
  BY <1>1, <1>2, <1>4 DEF Item, ItemAssumption
<1> DEFINE next == [p \in Mutable |-> IF p = c[i - 1] THEN h.next[o] ELSE IF p = o THEN None ELSE h.next[p]]
           slot == [h.slot EXCEPT ![o] = None]
           count == [h.count EXCEPT ![s] = m - 1]
<1>6. next \in [Mutable -> Mutable \cup {None}] /\ slot \in [Item -> Slot \cup {None}] /\ count \in [Slot -> Nat]
  BY <1>2, <1>3, <1>5
<1>7. g = Heap (h.held, count, next, slot)
  BY DEF Inner
<1>8. /\ next[c[i - 1]] = h.next[o] /\ next[o] = None
      /\ \A p \in Mutable : p # c[i - 1] /\ p # o => next[p] = h.next[p]
  BY <1>5
<1>9. slot[o] = None /\ \A p \in Item : p # o => slot[p] = h.slot[p]
  BY <1>3, <1>5
<1>10. count[s] = m - 1 /\ \A u \in Slot : u # s => count[u] = h.count[u]
  BY <1>3
<1> HIDE DEF next, slot, count, g
<1>11. g \in HeapType /\ g.held = h.held /\ g.count = count /\ g.next = next /\ g.slot = slot
  BY <1>3, <1>6, <1>7, HeapMade DEF Heap
<1>12. \A j \in 1 .. m - 1 : IF j < i THEN d[j] = c[j] /\ j \in 1 .. m ELSE d[j] = c[j + 1] /\ j + 1 \in 1 .. m /\ j + 1 > i
  BY <1>1, <1>2 DEF Shorter
<1> HIDE DEF d
<1>13. Chain (g, d, m - 1)
  <2>1. \A j \in 1 .. m - 1 : d[j] \in Mutable
    BY <1>1, <1>12
  <2>2. ASSUME NEW j \in 1 .. m - 1, NEW l \in 1 .. m - 1, d[j] = d[l]
        PROVE  j = l
    BY <1>1, <1>4, <1>12, <2>2
  <2>3. ASSUME NEW j \in 1 .. m - 1
        PROVE  next[d[j]] = IF j = m - 1 THEN None ELSE d[j + 1]
    <3>1. CASE j < i - 1
      <4>1. d[j] = c[j] /\ d[j + 1] = c[j + 1] /\ j \in 1 .. m /\ j # m - 1 /\ j # m /\ j # i /\ j # i - 1
        BY <1>2, <1>12, <3>1
      <4>2. c[j] # o /\ c[j] # c[i - 1] /\ c[j] \in Mutable
        BY <1>1, <1>2, <1>4, <4>1
      <4>3. next[c[j]] = c[j + 1]
        BY <1>4, <1>8, <4>1, <4>2
      <4>4. QED
        BY <4>1, <4>3
    <3>2. CASE j = i - 1
      <4>1. d[j] = c[i - 1]
        BY <1>2, <1>12, <3>2
      <4>2. next[d[j]] = IF i = m THEN None ELSE c[i + 1]
        BY <1>2, <1>4, <1>8, <4>1
      <4>3. i # m => j + 1 \in 1 .. m - 1 /\ ~ (j + 1 < i) /\ (j + 1) + 1 = i + 1
        BY <1>2, <3>2
      <4>4. i # m => d[j + 1] = c[i + 1]
        BY <1>12, <4>3
      <4>5. i = m <=> j = m - 1
        BY <1>1, <3>2
      <4>6. QED
        BY <4>2, <4>4, <4>5
    <3>3. CASE j > i - 1
      <4>1. d[j] = c[j + 1] /\ j + 1 \in 1 .. m /\ j + 1 # i /\ j + 1 # i - 1
        BY <1>2, <1>12, <3>3
      <4>2. c[j + 1] # o /\ c[j + 1] # c[i - 1] /\ c[j + 1] \in Mutable
        BY <1>1, <1>2, <1>4, <4>1
      <4>3. next[d[j]] = IF j + 1 = m THEN None ELSE c[(j + 1) + 1]
        BY <1>4, <1>8, <4>1, <4>2
      <4>4. j # m - 1 => j + 1 \in 1 .. m - 1 /\ ~ (j + 1 < i)
        BY <1>2, <3>3
      <4>5. j # m - 1 => d[j + 1] = c[(j + 1) + 1]
        BY <1>12, <4>4
      <4>6. j + 1 = m <=> j = m - 1
        BY <1>1
      <4>7. QED
        BY <4>3, <4>5, <4>6
    <3>4. QED
      BY <1>1, <3>1, <3>2, <3>3
  <2>4. QED
    BY <1>11, <2>1, <2>2, <2>3 DEF Chain
<1>14. Filed (g, d, s)
  <2>1. d[1] = c[1]
    <3>1. 1 \in 1 .. m - 1 /\ 1 < i
      BY <1>1, <1>2
    <3>2. QED
      BY <1>12, <3>1
  <2>2. \A j \in 1 .. m - 1 : g.slot[d[j]] = s /\ KindOf[d[j]] = KindOf[h.held[s]]
    <3>1. SUFFICES ASSUME NEW j \in 1 .. m - 1 PROVE g.slot[d[j]] = s /\ KindOf[d[j]] = KindOf[h.held[s]]
      OBVIOUS
    <3>2. PICK l \in 1 .. m : d[j] = c[l] /\ l # i
      BY <1>2, <1>12
    <3>3. c[l] # o /\ c[l] \in Item
      BY <1>1, <1>2, <1>4, <3>2 DEF Item
    <3>4. QED
      BY <1>1, <1>9, <1>11, <3>2, <3>3
  <2>3. ASSUME NEW p \in Mutable, g.slot[p] = s
        PROVE  \E j \in 1 .. m - 1 : d[j] = p
    <3>1. p # o /\ p \in Item
      BY <1>5, <1>9, <1>11, <2>3 DEF Item
    <3>2. h.slot[p] = s
      BY <1>9, <1>11, <2>3, <3>1
    <3>3. PICK l \in 1 .. m : c[l] = p
      BY <1>1, <3>2
    <3>4. l # i
      BY <3>1, <3>3
    <3>5. CASE l < i
      <4>1. l \in 1 .. m - 1
        BY <1>2, <3>5
      <4>2. QED
        BY <1>12, <3>3, <3>5, <4>1
    <3>6. CASE l > i
      <4>1. l - 1 \in 1 .. m - 1 /\ ~ (l - 1 < i) /\ (l - 1) + 1 = l
        BY <1>2, <3>6
      <4>2. d[l - 1] = c[(l - 1) + 1]
        BY <1>12, <4>1
      <4>3. d[l - 1] = p
        BY <3>3, <4>1, <4>2
      <4>4. QED
        BY <4>1, <4>3
    <3>7. QED
      BY <1>2, <3>4, <3>5, <3>6
  <2>4. m - 1 <= MaxStack (h.held[s])
    <3>1. MaxStack (h.held[s]) \in Nat
      BY <1>1, <1>5 DEF ItemAssumption, MaxStack, Item
    <3>2. QED
      BY <1>1, <3>1
  <2>5. g.held[s] = d[1] /\ g.count[s] = m - 1 /\ g.held[s] = h.held[s] /\ g.held[s] \in Mutable /\ g.held[s] # None
    BY <1>1, <1>5, <1>10, <1>11, <2>1
  <2>6. QED
    BY <1>2, <1>13, <2>2, <2>3, <2>4, <2>5 DEF Filed
<1>15. ASSUME NEW u \in Slot, u # s
       PROVE  \E e : Filed (g, e, u)
  <2>1. PICK e : Filed (h, e, u)
    BY DEF Good
  <2>2. g.held[u] = h.held[u] /\ g.count[u] = h.count[u]
    BY <1>10, <1>11, <1>15
  <2>3. \A p \in Mutable : (h.slot[p] = u => g.next[p] = h.next[p]) /\ (g.slot[p] = u <=> h.slot[p] = u)
    BY <1>5, <1>8, <1>9, <1>11, <1>15 DEF Item
  <2>4. Filed (g, e, u)
    BY <1>1, <2>1, <2>2, <2>3, FiledFrame
  <2>5. QED
    BY <2>4
<1>16. Good (g)
  BY <1>11, <1>14, <1>15 DEF Good
<1>17. Moved (h, g, None, s, KindOf[o], 1)
  <2>1. SUFFICES ASSUME NEW u \in Slot, NEW j \in Kinds
        PROVE  Amount (g, u, j) = Amount (h, u, j) + (IF u = None /\ j = KindOf[o] THEN 1 ELSE 0)
                                    - (IF u = s /\ j = KindOf[o] THEN 1 ELSE 0)
    BY DEF Moved
  <2>2. u # None /\ Amount (h, u, j) \in Nat
    BY <1>1, <1>5, AmountType
  <2>3. CASE u = s
    <3>1. Amount (h, s, j) = (IF j = KindOf[o] THEN m ELSE 0) /\ Amount (g, s, j) = (IF j = KindOf[o] THEN m - 1 ELSE 0)
      BY <1>1, <1>5, <1>10, <1>11 DEF Amount
    <3>2. QED
      BY <1>1, <2>2, <2>3, <3>1
  <2>4. CASE u # s
    <3>1. Amount (g, u, j) = Amount (h, u, j)
      BY <1>10, <1>11, <2>4 DEF Amount
    <3>2. QED
      BY <2>2, <2>4, <3>1
  <2>5. QED
    BY <2>3, <2>4
<1>18. Free (g) = Free (h) \cup {o}
  BY <1>5, <1>9, <1>11 DEF Free, Item
<1>19. Frame (h, g)
  <2>1. \A p \in Free (h) : g.next[p] = h.next[p]
    BY <1>5, <1>8, <1>11 DEF Free
  <2>2. \A k \in Shared : g.slot[k] = h.slot[k]
    BY <1>5, <1>9, <1>11 DEF Item
  <2>3. QED
    BY <2>1, <2>2 DEF Frame
<1>20. Out (h, g, s, o, 1)
  <2> DEFINE e == [j \in 1 .. 1 |-> o]
  <2>1. \A j \in 1 .. 1 : e[j] = o /\ j = 1
    OBVIOUS
  <2>2. e[1] = o /\ 1 \in 1 .. 1
    OBVIOUS
  <2> HIDE DEF e, o
  <2>3. Loose (g, e, 1)
    BY <1>5, <1>8, <1>9, <1>11, <2>1, <2>2 DEF Loose, Chain
  <2>4. Elements (e, 1) = {o}
    BY <2>1, <2>2 DEF Elements
  <2>5. QED
    BY <1>5, <1>18, <2>1, <2>2, <2>3, <2>4 DEF Out
<1>22. Beside (h, g, s)
  BY <1>5, <1>9, <1>11 DEF Beside, Item
<1>21. QED
  BY <1>5, <1>16, <1>17, <1>19, <1>20, <1>22 DEF Removed, Frame, FrameBut, g, o

LEMMA ForgottenIs ==
  ASSUME NEW g \in HeapType, NEW dead, \A p \in Mutable : p \in dead => g.next[p] = None
  PROVE  Forgotten (g, dead) = g
<1> DEFINE next == [p \in Mutable |-> IF p \in dead THEN None ELSE g.next[p]]
<1>1. g = Heap (g.held, g.count, g.next, g.slot) /\ g.next \in [Mutable -> Mutable \cup {None}]
  BY HeapIs
<1>2. next = g.next
  BY <1>1
<1>3. Forgotten (g, dead) = [g EXCEPT !.next = next]
  BY DEF Forgotten
<1> HIDE DEF next
<1>4. QED
  BY <1>1, <1>2, <1>3 DEF Heap

\* An item that comes out of a slot alone is in a stack of its own.
Alone (h, g, s, o) ==
  /\ Stack (g, o) = {o} /\ g.next[o] = None /\ g.slot[o] = None /\ h.slot[o] = s
  /\ Free (g) = Free (h) \cup {o}

LEMMA OutAlone ==
  ASSUME ItemAssumption, NEW h, NEW g \in HeapType, NEW s, NEW o \in Mutable, Out (h, g, s, o, 1)
  PROVE  Alone (h, g, s, o)
<1>1. PICK c : /\ Loose (g, c, 1) /\ c[1] = o
               /\ \A i \in 1 .. 1 : c[i] \in Mutable /\ h.slot[c[i]] = s
               /\ Free (g) = Free (h) \cup Elements (c, 1)
  BY DEF Out
<1>2. 1 \in 1 .. 1 /\ (\A i \in 1 .. 1 : i = 1) /\ 1 \in Nat \ {0}
  OBVIOUS
<1>3. Elements (c, 1) = {o}
  BY <1>1, <1>2 DEF Elements
<1>4. g.next \in [Mutable -> Mutable \cup {None}]
  BY HeapIs
<1>5. Chain (g, c, 1)
  BY <1>1 DEF Loose
<1>6. Stack (g, c[1]) = Elements (c, 1)
  BY <1>2, <1>4, <1>5, ChainStack
<1>7. g.next[o] = None /\ g.slot[o] = None
  BY <1>1, <1>2 DEF Loose, Chain
<1>8. QED
  BY <1>1, <1>2, <1>3, <1>6, <1>7 DEF Alone

\* Destroying a mutable item that is in a slot takes it out.
LEMMA DestroyedMutable ==
  ASSUME ItemAssumption, NEW h, Good (h), NEW o \in Mutable, NEW s \in Slot, h.slot[o] = s
  PROVE  \E g : /\ Destroyed (h, o) = [heap |-> g, dead |-> {o}]
                /\ Removed (h, g, s, o, 1) /\ Frame (h, g)
                /\ g.next[o] = None /\ g.slot[o] = None /\ Free (g) = Free (h) \cup {o}
<1>1. PICK c : Filed (h, c, s)
  BY DEF Good
<1>2. h.held[s] \in Mutable
  BY <1>1 DEF Filed
<1>3. /\ h \in HeapType /\ h.count[s] \in Nat \ {0} /\ h.held[s] = c[1]
      /\ \E i \in 1 .. h.count[s] : c[i] = o
  BY <1>1, <1>2, FiledItems
<1>4. PICK i \in 1 .. h.count[s] : c[i] = o
  BY <1>3
<1>5. o \in Item /\ s # None /\ o # None /\ o \notin Shared
  BY DEF Item, ItemAssumption
<1>6. PICK g : RemoveItems (h, s, o, 1) = [heap |-> g, rest |-> 0] /\ Removed (h, g, s, o, 1) /\ Frame (h, g)
  <2>1. CASE i = 1
    <3>1. h.held[s] = o /\ 1 \in 1 .. h.count[s]
      BY <1>3, <1>4, <2>1
    <3>2. QED
      BY <1>5, <3>1, RemovedIs
  <2>2. CASE i # 1
    <3>1. i \in 2 .. h.count[s]
      BY <1>3, <2>2
    <3>2. /\ RemoveItems (h, s, c[i], 1) = [heap |-> Inner (h, c, s, i), rest |-> 0]
          /\ Removed (h, Inner (h, c, s, i), s, c[i], 1) /\ Frame (h, Inner (h, c, s, i))
      BY <1>1, <1>2, <3>1, InnerIs, InnerGood
    <3>3. QED
      BY <1>4, <3>2
  <2>3. QED
    BY <2>1, <2>2
<1>7. g \in HeapType /\ Out (h, g, s, o, 1)
  BY <1>6 DEF Removed, Good
<1>8. Stack (g, o) = {o} /\ g.next[o] = None /\ g.slot[o] = None /\ Free (g) = Free (h) \cup {o}
  <2>1. Alone (h, g, s, o)
    BY <1>7, OutAlone
  <2>2. QED
    BY <2>1 DEF Alone
<1>9. TakeFrom (h, o, 1).heap = g
  BY <1>5, <1>6 DEF TakeFrom
<1>10. Forgotten (g, {o}) = g
  <2>1. \A p \in Mutable : p \in {o} => g.next[p] = None
    BY <1>8
  <2>2. QED
    BY <1>7, <2>1, ForgottenIs
<1>11. Destroyed (h, o) = [heap |-> g, dead |-> {o}]
  BY <1>5, <1>8, <1>9, <1>10 DEF Destroyed
<1>12. QED
  BY <1>6, <1>8, <1>11

\* Destroying a shared item takes one from the slot it was last seen in.
LEMMA DestroyedShared ==
  ASSUME ItemAssumption, NEW h, Good (h), NEW o \in Shared, NEW s \in Slot, h.slot[o] = s, h.held[s] = o
  PROVE  \E g : /\ Destroyed (h, o) = [heap |-> g, dead |-> {}]
                /\ Removed (h, g, s, o, 1) /\ Frame (h, g) /\ Free (g) = Free (h)
<1>1. h \in HeapType /\ h.count[s] \in Nat /\ (h.held[s] = None <=> h.count[s] = 0)
  BY GoodSlot
<1>2. o \in Item /\ s # None /\ o # None /\ o \notin Mutable
  BY DEF Item, ItemAssumption
<1>3. 1 \in 1 .. h.count[s]
  BY <1>1, <1>2
<1>4. PICK g : RemoveItems (h, s, o, 1) = [heap |-> g, rest |-> 0] /\ Removed (h, g, s, o, 1) /\ Frame (h, g)
  BY <1>2, <1>3, RemovedIs
<1>5. g \in HeapType /\ Free (g) = Free (h)
  BY <1>2, <1>4 DEF Removed, Good
<1>6. TakeFrom (h, o, 1).heap = g
  BY <1>2, <1>4 DEF TakeFrom
<1>7. Forgotten (g, {}) = g
  <2>1. \A p \in Mutable : p \in {} => g.next[p] = None
    OBVIOUS
  <2>2. QED
    BY <1>5, <2>1, ForgottenIs
<1>8. Destroyed (h, o) = [heap |-> g, dead |-> {}]
  BY <1>2, <1>6, <1>7 DEF Destroyed
<1>9. QED
  BY <1>4, <1>5, <1>8

-----------------------------------------------------------------------------
(* The invariant. *)

\* The script holds nothing, shared items that are in no slot, or a stack of
\* mutable items; no other mutable item that exists is out of the slots.
Held (h, hd, al) ==
  \/ hd = Empty /\ Free (h) \cap al = {}
  \/ /\ hd \in [item : Shared, count : Nat \ {0}]
     /\ h.slot[hd.item] = None
     /\ Free (h) \cap al = {}
  \/ /\ hd \in [item : Mutable, count : Nat \ {0}]
     /\ \E c : Loose (h, c, hd.count) /\ c[1] = hd.item /\ Free (h) \cap al = Elements (c, hd.count)

\* Deleted items are in no slot, and nothing is below them.
Living (h, al) ==
  /\ al \subseteq Mutable
  /\ \A p \in Mutable \ al : h.slot[p] = None /\ h.next[p] = None

InHand (hd, k) == IF hd # Empty /\ KindOf[hd.item] = k THEN hd.count ELSE 0

\* The slots and the hand have what was made.
Numbers (h, hd, md) ==
  /\ md \in [Kinds -> Nat]
  /\ \A k \in Kinds : md[k] = Counted (h, Slot, k) + InHand (hd, k)

EmptyOutside (h, U) == \A u \in Slot \ U : h.count[u] = 0

\* All is in order: the heap, the hand, what is alive and how many there are,
\* when the slots in U are in use.
Fits (h, hd, al, md, U) ==
  /\ Good (h)
  /\ EmptyOutside (h, U)
  /\ Living (h, al)
  /\ Held (h, hd, al)
  /\ Numbers (h, hd, md)

IInv ==
  /\ slots \in [Inventory -> Seq (Slot \ {Tmp})]
  /\ hung = FALSE
  /\ Fits (heap, hand, alive, made, InUse)

NextKept (h, g) == \A p \in Free (h) \cap Free (g) : g.next[p] = h.next[p]

LEMMA HeldKept ==
  ASSUME ItemAssumption, NEW h, NEW g, NEW hd, NEW al, NEW be, Held (h, hd, al),
         Free (g) \cap be = Free (h) \cap al, NextKept (h, g),
         hd.item \in Shared => g.slot[hd.item] = h.slot[hd.item]
  PROVE  Held (g, hd, be)
<1>1. CASE hd = Empty /\ Free (h) \cap al = {}
  BY <1>1 DEF Held
<1>2. CASE /\ hd \in [item : Shared, count : Nat \ {0}]
           /\ h.slot[hd.item] = None
           /\ Free (h) \cap al = {}
  BY <1>2 DEF Held
<1>3. CASE /\ hd \in [item : Mutable, count : Nat \ {0}]
           /\ \E c : Loose (h, c, hd.count) /\ c[1] = hd.item /\ Free (h) \cap al = Elements (c, hd.count)
  <2>1. PICK c : Loose (h, c, hd.count) /\ c[1] = hd.item /\ Free (h) \cap al = Elements (c, hd.count)
    BY <1>3
  <2> DEFINE n == hd.count
  <2>2. \A i \in 1 .. n : c[i] \in Free (h) \cap Free (g)
    BY <2>1 DEF Elements
  <2> HIDE DEF n
  <2>3. \A i \in 1 .. n : g.next[c[i]] = h.next[c[i]] /\ g.slot[c[i]] = None
    BY <2>2 DEF NextKept, Free
  <2>4. Loose (g, c, n)
    BY <2>1, <2>3 DEF n, Loose, Chain
  <2>5. QED
    BY <1>3, <2>1, <2>4 DEF n, Held
<1>4. QED
  BY <1>1, <1>2, <1>3 DEF Held

LEMMA LivingKept ==
  ASSUME NEW h, NEW g, NEW al, NEW be, Living (h, al), be \subseteq Mutable,
         NextKept (h, g), \A p \in Mutable \ be : p \in Free (g) /\ (p \in al => g.next[p] = None)
  PROVE  Living (g, be)
<1>1. \A p \in Mutable \ be : g.slot[p] = None
  BY DEF Free
<1>2. ASSUME NEW p \in Mutable \ be, p \notin al
      PROVE  g.next[p] = None
  <2>1. p \in Free (h) /\ h.next[p] = None /\ p \in Free (g)
    BY <1>2 DEF Living, Free
  <2>2. QED
    BY <2>1 DEF NextKept
<1>3. QED
  BY <1>1, <1>2 DEF Living

LEMMA LikeCounted ==
  ASSUME ItemAssumption, NEW h, Good (h), NEW g, Like (h, g), NEW S \in SUBSET Slot, NEW k \in Kinds
  PROVE  Counted (g, S, k) = Counted (h, S, k)
<1>1. h \in HeapType /\ g \in HeapType /\ \A s \in S : Amount (g, s, k) = Amount (h, s, k)
  BY LikeGood DEF Like, Good
<1>2. QED
  BY <1>1, CountedSame

\* What there is more of kind j when m items of kind k came from t.
Gain (j, k, t, m) == IF j = k /\ t = None THEN m ELSE 0

LEMMA FlowAll ==
  ASSUME ItemAssumption, InventoriesAssumption, NEW h \in HeapType, NEW g \in HeapType, NEW D \in SUBSET Slot,
         NEW t \in Slot \cup {None}, NEW k, NEW m \in Nat, Flow (h, g, D, t, k, m), NEW j \in Kinds
  PROVE  Counted (g, Slot, j) = Counted (h, Slot, j) + Gain (j, k, t, m)
<1>1. Slot \in SUBSET Slot /\ D \subseteq Slot /\ None \notin Slot
  BY DEF ItemAssumption
<1>5. Counted (h, Slot, j) \in Nat
  BY <1>1, CountedType
<1>2. CASE j # k
  <2>1. Counted (g, Slot, j) = Counted (h, Slot, j)
    BY <1>1, <1>2, FlowOfOthers
  <2>2. QED
    BY <1>2, <1>5, <2>1 DEF Gain
<1>3. CASE j = k
  <2>1. Counted (g, Slot, k) = Counted (h, Slot, k) + m - (IF t \in Slot THEN m ELSE 0)
    BY <1>1 DEF Flow
  <2>2. QED
    BY <1>1, <1>3, <1>5, <2>1 DEF Gain
<1>4. QED
  BY <1>2, <1>3

LEMMA OutsideMoved ==
  ASSUME ItemAssumption, NEW h, Good (h), NEW g, Good (g), NEW U, NEW s \in U \cup {None}, NEW t, NEW k,
         NEW n \in Nat, Moved (h, g, s, t, k, n), EmptyOutside (h, U)
  PROVE  EmptyOutside (g, U)
<1>1. SUFFICES ASSUME NEW u \in Slot \ U PROVE g.count[u] = 0
  BY DEF EmptyOutside
<1>2. h \in HeapType /\ g \in HeapType /\ u # s /\ u \in Slot
  BY DEF Good, ItemAssumption
<1>3. \A j \in Kinds : Amount (h, u, j) = 0
  <2>1. h.count[u] = 0
    BY DEF EmptyOutside
  <2>2. QED
    BY <1>2, <2>1, EmptySlot
<1>4. \A j \in Kinds : Amount (g, u, j) = 0
  <2>1. SUFFICES ASSUME NEW j \in Kinds PROVE Amount (g, u, j) = 0
    OBVIOUS
  <2>2. Amount (g, u, j) = Amount (h, u, j) + (IF u = s /\ j = k THEN n ELSE 0) - (IF u = t /\ j = k THEN n ELSE 0)
    BY <1>2 DEF Moved
  <2>3. Amount (g, u, j) \in Nat /\ Amount (h, u, j) = 0
    BY <1>2, <1>3, AmountType
  <2>4. QED
    BY <1>2, <2>2, <2>3
<1>5. QED
  BY <1>2, <1>4, EmptySlot

LEMMA OutsideFlow ==
  ASSUME ItemAssumption, NEW h, Good (h), NEW g, Good (g), NEW U, NEW D, NEW t, NEW k, NEW m,
         Flow (h, g, D, t, k, m), EmptyOutside (h, U), D \subseteq U, t \in U \cup {None}
  PROVE  EmptyOutside (g, U)
<1>1. SUFFICES ASSUME NEW u \in Slot \ U PROVE g.count[u] = 0
  BY DEF EmptyOutside
<1>2. u \in Slot /\ u \notin D \cup {t}
  BY DEF ItemAssumption
<1>3. \A j \in Kinds : Amount (g, u, j) = Amount (h, u, j)
  BY <1>2 DEF Flow
<1>4. h.count[u] = 0
  BY DEF EmptyOutside
<1>5. QED
  BY <1>2, <1>3, <1>4, EmptySlot

LEMMA OutsideLike ==
  ASSUME NEW h, NEW g, NEW U, Like (h, g), EmptyOutside (h, U)
  PROVE  EmptyOutside (g, U)
BY DEF Like, EmptyOutside

\* Less slots are outside.
LEMMA OutsideLess ==
  ASSUME NEW h, NEW U, NEW V, EmptyOutside (h, U), U \subseteq V
  PROVE  EmptyOutside (h, V)
BY DEF EmptyOutside

LEMMA FitsLike ==
  ASSUME ItemAssumption, NEW h, NEW g, NEW hd, NEW al, NEW md, NEW U, Fits (h, hd, al, md, U), Like (h, g),
         hd.item \in Shared => g.slot[hd.item] = h.slot[hd.item]
  PROVE  Fits (g, hd, al, md, U)
<1>1. Good (h) /\ EmptyOutside (h, U) /\ Living (h, al) /\ Held (h, hd, al) /\ Numbers (h, hd, md)
  BY DEF Fits
<1>2. Good (g) /\ Free (g) = Free (h)
  BY <1>1, LikeGood
<1>3. EmptyOutside (g, U)
  BY <1>1, OutsideLike
<1>4. g.next = h.next /\ \A p \in Mutable : g.slot[p] = h.slot[p]
  BY DEF Like
<1>5. Living (g, al)
  BY <1>1, <1>4 DEF Living
<1>6. NextKept (h, g) /\ Free (g) \cap al = Free (h) \cap al
  BY <1>2, <1>4 DEF NextKept
<1>7. Held (g, hd, al)
  BY <1>1, <1>6, HeldKept
<1>8. Numbers (g, hd, md)
  <2>1. \A k \in Kinds : Counted (g, Slot, k) = Counted (h, Slot, k)
    <3>1. SUFFICES ASSUME NEW k \in Kinds PROVE Counted (g, Slot, k) = Counted (h, Slot, k)
      OBVIOUS
    <3>2. Slot \in SUBSET Slot
      OBVIOUS
    <3>3. QED
      BY <1>1, <3>2, LikeCounted
  <2>2. QED
    BY <1>1, <2>1 DEF Numbers
<1>9. QED
  BY <1>2, <1>3, <1>5, <1>7, <1>8 DEF Fits

\* m items o came from slot t, or from the hand, to slots of V.
Came (h, g, V, t, o, m) ==
  /\ Good (g) /\ Frame (h, g) /\ EmptyOutside (g, V)
  /\ Free (g) = IF o \in Mutable /\ t = None /\ m > 0 THEN Free (h) \ {o} ELSE Free (h)
  /\ \A j \in Kinds : Counted (g, Slot, j) = Counted (h, Slot, j) + Gain (j, KindOf[o], t, m)

LEMMA CameAdded ==
  ASSUME ItemAssumption, InventoriesAssumption, NEW h, Good (h), NEW g, NEW U, EmptyOutside (h, U),
         NEW s \in Slot, s \in U, NEW t \in Slot \cup {None}, NEW o \in Item, NEW m \in Nat, Added (h, g, s, t, o, m)
  PROVE  Came (h, g, U, t, o, m)
<1>1. Good (g) /\ Frame (h, g) /\ Moved (h, g, s, t, KindOf[o], m)
      /\ Free (g) = IF o \in Mutable /\ t = None /\ m > 0 THEN Free (h) \ {o} ELSE Free (h)
  BY DEF Added
<1>2. h \in HeapType /\ g \in HeapType /\ None \notin Slot /\ s \in U \cup {None}
  BY <1>1 DEF Good, ItemAssumption
<1>3. EmptyOutside (g, U)
  BY <1>1, <1>2, OutsideMoved
<1>4. ASSUME NEW j \in Kinds
      PROVE  Counted (g, Slot, j) = Counted (h, Slot, j) + Gain (j, KindOf[o], t, m)
  <2>1. Slot \in SUBSET Slot
    OBVIOUS
  <2>2. Counted (g, Slot, j) = Counted (h, Slot, j) + (IF s \in Slot /\ j = KindOf[o] THEN m ELSE 0)
                                 - (IF t \in Slot /\ j = KindOf[o] THEN m ELSE 0)
    BY <1>1, <1>2, <2>1, CountedMoved
  <2>3. Counted (h, Slot, j) \in Nat
    BY <1>2, <2>1, CountedType
  <2>4. QED
    BY <1>2, <2>2, <2>3 DEF Gain
<1>5. QED
  BY <1>1, <1>3, <1>4 DEF Came

LEMMA CameRunning ==
  ASSUME ItemAssumption, InventoriesAssumption, NEW h, Good (h), NEW g, NEW U, EmptyOutside (h, U),
         NEW D, NEW V, D \subseteq V, U \subseteq V, V \subseteq Slot, NEW t, t \in V \cup {None}, NEW o \in Item,
         NEW n \in Nat, NEW r \in 0 .. n, Running (h, g, D, t, o, n, r)
  PROVE  Came (h, g, V, t, o, n - r)
<1>1. Good (g) /\ Frame (h, g) /\ Flow (h, g, D, t, KindOf[o], n - r)
      /\ Free (g) = IF o \in Mutable /\ t = None /\ r < n THEN Free (h) \ {o} ELSE Free (h)
  BY DEF Running
<1>2. h \in HeapType /\ g \in HeapType /\ D \in SUBSET Slot /\ t \in Slot \cup {None}
      /\ n - r \in Nat /\ (n - r > 0 <=> r < n)
  BY <1>1 DEF Good
<1>3. EmptyOutside (h, V)
  BY OutsideLess
<1>4. EmptyOutside (g, V)
  BY <1>1, <1>3, OutsideFlow
<1>5. \A j \in Kinds :
        Counted (g, Slot, j) = Counted (h, Slot, j) + Gain (j, KindOf[o], t, n - r)
  <2>1. SUFFICES ASSUME NEW j \in Kinds
        PROVE Counted (g, Slot, j) = Counted (h, Slot, j) + Gain (j, KindOf[o], t, n - r)
    OBVIOUS
  <2> DEFINE m == n - r
             k == KindOf[o]
  <2>2. m \in Nat /\ Flow (h, g, D, t, k, m)
    BY <1>1, <1>2
  <2>3. g \in HeapType /\ h \in HeapType /\ D \in SUBSET Slot /\ t \in Slot \cup {None}
    BY <1>2
  <2> HIDE DEF m, k
  <2>7. m \in Nat
    BY <2>2
  <2>8. Flow (h, g, D, t, k, m)
    BY <2>2
  <2>4. Counted (g, Slot, j) = Counted (h, Slot, j) + Gain (j, k, t, m)
    BY <2>3, <2>7, <2>8, FlowAll
  <2>5. Counted (g, Slot, j) = Counted (h, Slot, j) + Gain (j, k, t, n - r)
    BY <2>4 DEF m
  <2>6. QED
    BY <2>5 DEF k
<1>6. QED
  BY <1>1, <1>2, <1>4, <1>5 DEF Came

\* Items that move between slots leave all else as it was.
LEMMA FitsFromSlot ==
  ASSUME ItemAssumption, InventoriesAssumption, NEW h, NEW g, NEW hd, NEW al, NEW md, NEW U, Fits (h, hd, al, md, U),
         NEW V, NEW t, NEW o, NEW m, Came (h, g, V, t, o, m), t \in Slot \/ m = 0
  PROVE  Fits (g, hd, al, md, V)
<1>1. Good (h) /\ Living (h, al) /\ Held (h, hd, al) /\ Numbers (h, hd, md) /\ h \in HeapType
  BY DEF Fits, Good
<1>2. t # None \/ m = 0
  BY DEF ItemAssumption
<1>3. Good (g) /\ Frame (h, g) /\ EmptyOutside (g, V) /\ Free (g) = Free (h)
  BY <1>2 DEF Came
<1>4. NextKept (h, g) /\ (\A k \in Shared : g.slot[k] = h.slot[k]) /\ Free (g) \cap al = Free (h) \cap al
  BY <1>3 DEF Frame, NextKept
<1>5. Held (g, hd, al)
  BY <1>1, <1>4, HeldKept
<1>6. \A p \in Mutable \ al : p \in Free (g) /\ (p \in al => g.next[p] = None)
  BY <1>1, <1>3 DEF Living, Free
<1>7. Living (g, al)
  <2>1. al \subseteq Mutable
    BY <1>1 DEF Living
  <2>2. QED
    BY <1>1, <1>4, <1>6, <2>1, LivingKept
<1>8. Numbers (g, hd, md)
  <2>1. ASSUME NEW j \in Kinds
        PROVE  Counted (g, Slot, j) = Counted (h, Slot, j)
    <3>1. Counted (g, Slot, j) = Counted (h, Slot, j) + 0
      BY <1>2 DEF Came, Gain
    <3>2. Slot \in SUBSET Slot
      OBVIOUS
    <3>3. Counted (h, Slot, j) \in Nat
      BY <1>1, <3>2, CountedType
    <3>4. QED
      BY <3>1, <3>3
  <2>2. QED
    BY <1>1, <2>1 DEF Numbers
<1>9. QED
  BY <1>3, <1>5, <1>7, <1>8 DEF Fits

\* The items that are not in be were deleted, or are about to be made.
LeftOut (g, al, be) == \A p \in Mutable \ be : p \in Free (g) /\ (p \in al => g.next[p] = None)

LEMMA FitsOn ==
  ASSUME ItemAssumption, NEW h, NEW hd, NEW al, NEW md, NEW U, Fits (h, hd, al, md, U),
         NEW g, Good (g), NEW V, EmptyOutside (g, V), Frame (h, g),
         NEW be, be \subseteq Mutable, Free (g) \cap be = Free (h) \cap al, LeftOut (g, al, be),
         NEW nd, Numbers (g, hd, nd)
  PROVE  Fits (g, hd, be, nd, V)
<1>1. Living (h, al) /\ Held (h, hd, al)
  BY DEF Fits
<1>2. NextKept (h, g) /\ (hd.item \in Shared => g.slot[hd.item] = h.slot[hd.item])
  BY DEF Frame, NextKept
<1>3. Held (g, hd, be)
  BY <1>1, <1>2, HeldKept
<1>4. \A p \in Mutable \ be : p \in Free (g) /\ (p \in al => g.next[p] = None)
  BY DEF LeftOut
<1>5. Living (g, be)
  BY <1>1, <1>2, <1>4, LivingKept
<1>6. QED
  BY <1>3, <1>5 DEF Fits

\* There are n items of kind k more, or less.
More (md, k, n) == [j \in Kinds |-> md[j] + IF j = k THEN n ELSE 0]
Fewer (md, k, n) == [j \in Kinds |-> md[j] - IF j = k THEN n ELSE 0]

LEMMA HandNatural ==
  ASSUME NEW h, NEW hd, NEW al, Held (h, hd, al), NEW k
  PROVE  InHand (hd, k) \in Nat
<1>1. CASE hd = Empty
  BY <1>1 DEF InHand
<1>2. CASE hd # Empty
  <2>1. hd.count \in Nat
    BY <1>2 DEF Held
  <2>2. QED
    BY <2>1 DEF InHand
<1>3. QED
  BY <1>1, <1>2

LEMMA NumbersGrow ==
  ASSUME NEW h, NEW g, NEW hd, NEW md, NEW k, NEW n \in Nat, Numbers (h, hd, md),
         \A j \in Kinds : Counted (g, Slot, j) = Counted (h, Slot, j) + IF j = k THEN n ELSE 0,
         \A j \in Kinds : Counted (h, Slot, j) \in Nat /\ InHand (hd, j) \in Nat
  PROVE  Numbers (g, hd, More (md, k, n))
<1>1. \A j \in Kinds : More (md, k, n)[j] = md[j] + IF j = k THEN n ELSE 0
  BY DEF More
<1>2. \A j \in Kinds : More (md, k, n)[j] \in Nat
  BY <1>1 DEF Numbers
<1>3. More (md, k, n) \in [Kinds -> Nat]
  <2>1. More (md, k, n) = [j \in Kinds |-> More (md, k, n)[j]]
    BY DEF More
  <2>2. QED
    BY <1>2, <2>1
<1>4. \A j \in Kinds : More (md, k, n)[j] = Counted (g, Slot, j) + InHand (hd, j)
  BY <1>1 DEF Numbers
<1>5. QED
  BY <1>3, <1>4 DEF Numbers

LEMMA NumbersShrink ==
  ASSUME NEW h, NEW g, NEW hd, NEW md, NEW k, NEW n \in Nat, Numbers (h, hd, md),
         \A j \in Kinds : Counted (g, Slot, j) = Counted (h, Slot, j) - IF j = k THEN n ELSE 0,
         \A j \in Kinds : Counted (g, Slot, j) \in Nat /\ InHand (hd, j) \in Nat,
         \A j \in Kinds : Counted (h, Slot, j) \in Nat
  PROVE  Numbers (g, hd, Fewer (md, k, n))
<1>1. \A j \in Kinds : Fewer (md, k, n)[j] = md[j] - IF j = k THEN n ELSE 0
  BY DEF Fewer
<1>4. \A j \in Kinds : Fewer (md, k, n)[j] = Counted (g, Slot, j) + InHand (hd, j)
  BY <1>1 DEF Numbers
<1>2. \A j \in Kinds : Fewer (md, k, n)[j] \in Nat
  BY <1>4
<1>3. Fewer (md, k, n) \in [Kinds -> Nat]
  <2>1. Fewer (md, k, n) = [j \in Kinds |-> Fewer (md, k, n)[j]]
    BY DEF Fewer
  <2>2. QED
    BY <1>2, <2>1
<1>5. QED
  BY <1>3, <1>4 DEF Numbers

LEMMA CountedTaken ==
  ASSUME ItemAssumption, InventoriesAssumption, NEW h, NEW g, Good (h), Good (g), NEW s \in Slot, NEW k, NEW n \in Nat,
         Moved (h, g, None, s, k, n), NEW j \in Kinds
  PROVE  /\ Counted (g, Slot, j) = Counted (h, Slot, j) - IF j = k THEN n ELSE 0
         /\ Counted (g, Slot, j) \in Nat /\ Counted (h, Slot, j) \in Nat
<1>1. h \in HeapType /\ g \in HeapType /\ Slot \in SUBSET Slot /\ None \notin Slot
  BY DEF Good, ItemAssumption
<1>2. Counted (g, Slot, j) = Counted (h, Slot, j) + (IF None \in Slot /\ j = k THEN n ELSE 0)
                                - (IF s \in Slot /\ j = k THEN n ELSE 0)
  BY <1>1, CountedMoved
<1>3. Counted (g, Slot, j) \in Nat /\ Counted (h, Slot, j) \in Nat
  BY <1>1, CountedType
<1>4. QED
  BY <1>1, <1>2, <1>3

\* Destroying an item that is where it says takes it out of its slot.
LEMMA DestroyedIs ==
  ASSUME ItemAssumption, NEW h, Good (h), NEW o \in Item, NEW s \in Slot, h.slot[o] = s, o \in Shared => h.held[s] = o
  PROVE  \E g : /\ Destroyed (h, o) = [heap |-> g, dead |-> {o} \cap Mutable]
                /\ Removed (h, g, s, o, 1) /\ Frame (h, g)
                /\ o \in Mutable => g.next[o] = None
                /\ Free (g) = Free (h) \cup ({o} \cap Mutable)
<1>1. CASE o \in Mutable
  <2>1. {o} \cap Mutable = {o}
    BY <1>1
  <2>2. QED
    BY <1>1, <2>1, DestroyedMutable
<1>2. CASE o \notin Mutable
  <2>1. {o} \cap Mutable = {} /\ o \in Shared
    BY <1>2 DEF Item
  <2>2. PICK g : /\ Destroyed (h, o) = [heap |-> g, dead |-> {}]
                 /\ Removed (h, g, s, o, 1) /\ Frame (h, g) /\ Free (g) = Free (h)
    BY <2>1, DestroyedShared
  <2>3. QED
    BY <1>2, <2>1, <2>2
<1>3. QED
  BY <1>1, <1>2

LEMMA FitsGone ==
  ASSUME ItemAssumption, InventoriesAssumption, NEW h, NEW hd, NEW al, NEW md, NEW U, Fits (h, hd, al, md, U),
         NEW o \in Item, NEW s \in Slot, h.slot[o] = s, NEW g, Removed (h, g, s, o, 1), Frame (h, g),
         o \in Mutable => g.next[o] = None, NEW dead, dead = {o} \cap Mutable, Free (g) = Free (h) \cup dead
  PROVE  Fits (g, hd, al \ dead, Fewer (md, KindOf[o], 1), U)
<1>1. Good (h) /\ Good (g) /\ EmptyOutside (h, U) /\ Living (h, al) /\ Held (h, hd, al) /\ Numbers (h, hd, md)
      /\ Moved (h, g, None, s, KindOf[o], 1) /\ 1 \in Nat
  BY DEF Fits, Removed
<1>2. EmptyOutside (g, U)
  <2>1. None \in U \cup {None}
    OBVIOUS
  <2>2. QED
    BY <1>1, <2>1, OutsideMoved
<1>3. dead \cap Free (h) = {} /\ al \subseteq Mutable
  BY <1>1 DEF Free, Living, ItemAssumption
<1>4. Free (g) \cap (al \ dead) = Free (h) \cap al /\ al \ dead \subseteq Mutable
  BY <1>3
<1>5. LeftOut (g, al, al \ dead)
  <2>1. SUFFICES ASSUME NEW p \in Mutable, p \notin al \ dead PROVE p \in Free (g) /\ (p \in al => g.next[p] = None)
    BY DEF LeftOut
  <2>2. CASE p \in dead
    BY <2>2
  <2>3. CASE p \notin dead
    BY <1>1, <2>1, <2>3 DEF Living, Free
  <2>4. QED
    BY <2>2, <2>3
<1>6. Numbers (g, hd, Fewer (md, KindOf[o], 1))
  <2> DEFINE k == KindOf[o]
  <2>1. Moved (h, g, None, s, k, 1)
    BY <1>1
  <2> HIDE DEF k
  <2>2. \A j \in Kinds : Counted (g, Slot, j) = Counted (h, Slot, j) - IF j = k THEN 1 ELSE 0
    BY <1>1, <2>1, CountedTaken
  <2>3. \A j \in Kinds : Counted (g, Slot, j) \in Nat /\ InHand (hd, j) \in Nat
    BY <1>1, <2>1, CountedTaken, HandNatural
  <2>4. \A j \in Kinds : Counted (h, Slot, j) \in Nat
    BY <1>1, <2>1, CountedTaken
  <2>5. Numbers (g, hd, Fewer (md, k, 1))
    BY <1>1, <2>2, <2>3, <2>4, NumbersShrink
  <2>6. QED
    BY <2>5 DEF k
<1>7. QED
  BY <1>1, <1>2, <1>4, <1>5, <1>6, FitsOn

HandOf (o, n) == [item |-> o, count |-> n]

LEMMA HandIs ==
  ASSUME ItemAssumption, NEW o \in Item, NEW n \in Nat \ {0}
  PROVE  /\ HandOf (o, n) # Empty
         /\ HandOf (o, n).item = o /\ HandOf (o, n).count = n
         /\ \A k : InHand (HandOf (o, n), k) = IF KindOf[o] = k THEN n ELSE 0
         /\ \A k : InHand (Empty, k) = 0
<1>1. o # None
  BY DEF ItemAssumption, Item
<1>2. HandOf (o, n) # Empty
  BY <1>1 DEF HandOf, Empty
<1>3. HandOf (o, n).item = o /\ HandOf (o, n).count = n
  BY DEF HandOf
<1>4. QED
  BY <1>2, <1>3 DEF InHand

\* The hand holds a stack of mutable items, or shared ones that are in no slot.
LEMMA HandHolds ==
  ASSUME ItemAssumption, NEW h, NEW o \in Item, NEW n \in Nat \ {0}, NEW al,
         o \in Shared => h.slot[o] = None /\ Free (h) \cap al = {},
         o \in Mutable => \E c : Loose (h, c, n) /\ c[1] = o /\ Free (h) \cap al = Elements (c, n)
  PROVE  Held (h, HandOf (o, n), al)
<1>1. HandOf (o, n).item = o /\ HandOf (o, n).count = n
  BY HandIs
<1>2. CASE o \in Mutable
  <2>1. HandOf (o, n) \in [item : Mutable, count : Nat \ {0}]
    BY <1>2 DEF HandOf
  <2>2. QED
    BY <1>1, <1>2, <2>1 DEF Held
<1>3. CASE o \in Shared
  <2>1. HandOf (o, n) \in [item : Shared, count : Nat \ {0}]
    BY <1>3 DEF HandOf
  <2>2. QED
    BY <1>1, <1>3, <2>1 DEF Held
<1>4. QED
  BY <1>2, <1>3 DEF Item

LEMMA EmptyHolds ==
  ASSUME NEW h, NEW al
  PROVE  Held (h, Empty, al) <=> Free (h) \cap al = {}
<1>1. 0 \notin Nat \ {0} /\ Empty.count = 0
  BY DEF Empty
<1>2. Empty \notin [item : Shared, count : Nat \ {0}] /\ Empty \notin [item : Mutable, count : Nat \ {0}]
  BY <1>1
<1>3. QED
  BY <1>2 DEF Held

\* What is taken out of a slot is in the hand.
LEMMA FitsTakeOut ==
  ASSUME ItemAssumption, InventoriesAssumption, NEW h, NEW al, NEW md, NEW U, Fits (h, Empty, al, md, U),
         NEW t \in Slot, NEW o \in Item, NEW n \in Nat \ {0}, NEW g, Removed (h, g, t, o, n),
         o \in Shared => g.slot[o] = None
  PROVE  Fits (g, HandOf (o, n), al, md, U)
<1>1. Good (h) /\ Good (g) /\ EmptyOutside (h, U) /\ Living (h, al) /\ Held (h, Empty, al) /\ Numbers (h, Empty, md)
      /\ Moved (h, g, None, t, KindOf[o], n) /\ FrameBut (h, g, o) /\ n \in Nat
  BY DEF Fits, Removed
<1>2. EmptyOutside (g, U)
  <2>1. None \in U \cup {None}
    OBVIOUS
  <2>2. QED
    BY <1>1, <2>1, OutsideMoved
<1>3. Free (h) \cap al = {} /\ al \subseteq Mutable /\ t # None
  BY <1>1, EmptyHolds DEF Living, ItemAssumption
<1>4. Free (h) \subseteq Free (g)
  BY DEF Removed, Out
<1>5. Living (g, al)
  <2>1. NextKept (h, g)
    BY <1>1 DEF FrameBut, NextKept
  <2>2. \A p \in Mutable \ al : p \in Free (g) /\ (p \in al => g.next[p] = None)
    BY <1>1, <1>4 DEF Living, Free
  <2>3. QED
    BY <1>1, <1>3, <2>1, <2>2, LivingKept
<1>6. Held (g, HandOf (o, n), al)
  <2>1. CASE o \in Mutable
    <3>1. PICK c : /\ Loose (g, c, n) /\ c[1] = o
                   /\ \A i \in 1 .. n : c[i] \in Mutable /\ h.slot[c[i]] = t
                   /\ Free (g) = Free (h) \cup Elements (c, n)
      BY <2>1 DEF Removed, Out
    <3>2. \A p \in Elements (c, n) : p \in Mutable /\ h.slot[p] = t
      BY <3>1 DEF Elements
    <3>3. \A p \in Elements (c, n) : p \in al
      BY <1>1, <1>3, <3>2 DEF Living
    <3>4. Free (g) \cap al = Elements (c, n)
      BY <1>3, <3>1, <3>3
    <3>5. o \notin Shared
      BY <2>1 DEF ItemAssumption
    <3>6. QED
      BY <3>1, <3>4, <3>5, HandHolds
  <2>2. CASE o \notin Mutable
    <3>1. Free (g) = Free (h)
      BY <2>2 DEF Removed
    <3>2. QED
      BY <1>3, <2>2, <3>1, HandHolds
  <2>3. QED
    BY <2>1, <2>2
<1>7. Numbers (g, HandOf (o, n), md)
  <2>1. ASSUME NEW j \in Kinds
        PROVE  md[j] = Counted (g, Slot, j) + InHand (HandOf (o, n), j)
    <3> DEFINE k == KindOf[o]
    <3>1. Moved (h, g, None, t, k, n)
      BY <1>1
    <3>2. InHand (HandOf (o, n), j) = (IF k = j THEN n ELSE 0) /\ InHand (Empty, j) = 0
      BY HandIs
    <3>3. md[j] = Counted (h, Slot, j) + InHand (Empty, j)
      BY <1>1 DEF Numbers
    <3> HIDE DEF k
    <3>4. Counted (g, Slot, j) = Counted (h, Slot, j) - (IF j = k THEN n ELSE 0)
          /\ Counted (g, Slot, j) \in Nat /\ Counted (h, Slot, j) \in Nat
      BY <1>1, <3>1, CountedTaken
    <3>5. QED
      BY <3>2, <3>3, <3>4
  <2>2. QED
    BY <1>1, <2>1 DEF Numbers
<1>8. QED
  BY <1>1, <1>2, <1>5, <1>6, <1>7 DEF Fits

\* What is in the hand comes from no slot.
LEMMA HandSource ==
  ASSUME ItemAssumption, NEW h, NEW al, NEW o \in Item, NEW n \in Nat \ {0}, o \in Mutable => n = 1,
         Held (h, HandOf (o, n), al)
  PROVE  /\ Source (h, o, n, None)
         /\ o \in Mutable => Free (h) \cap al = {o}
         /\ o \in Shared => Free (h) \cap al = {}
<1>1. HandOf (o, n).item = o /\ HandOf (o, n).count = n /\ HandOf (o, n) # Empty
  BY HandIs
<1>2. CASE o \in Mutable
  <2>1. HandOf (o, n) \notin [item : Shared, count : Nat \ {0}] /\ o \notin Shared /\ n = 1
    BY <1>1, <1>2 DEF ItemAssumption
  <2>2. PICK c : Loose (h, c, n) /\ c[1] = o /\ Free (h) \cap al = Elements (c, n)
    BY <1>1, <2>1 DEF Held
  <2>3. 1 \in 1 .. 1 /\ \A i \in 1 .. 1 : i = 1
    OBVIOUS
  <2>4. Elements (c, n) = {o}
    BY <2>1, <2>2, <2>3 DEF Elements
  <2>5. h.slot[o] = None /\ h.next[o] = None
    BY <2>1, <2>2, <2>3 DEF Loose, Chain
  <2>6. QED
    BY <2>1, <2>2, <2>4, <2>5 DEF Source
<1>3. CASE o \in Shared
  <2>1. HandOf (o, n) \notin [item : Mutable, count : Nat \ {0}] /\ o \notin Mutable
    BY <1>1, <1>3 DEF ItemAssumption
  <2>2. h.slot[o] = None /\ Free (h) \cap al = {}
    BY <1>1, <2>1 DEF Held
  <2>3. QED
    BY <2>1, <2>2 DEF Source
<1>4. QED
  BY <1>2, <1>3 DEF Item

\* All is in order but for what is in the hand.
LEMMA FitsAside ==
  ASSUME ItemAssumption, InventoriesAssumption, NEW h, NEW al, NEW md, NEW U,
         NEW o \in Item, NEW n \in Nat \ {0}, o \in Mutable => n = 1, Fits (h, HandOf (o, n), al, md, U),
         NEW own, own = {o} \cap Mutable
  PROVE  Fits (h, Empty, al \ own, Fewer (md, KindOf[o], n), U)
<1>1. Good (h) /\ EmptyOutside (h, U) /\ Living (h, al) /\ Held (h, HandOf (o, n), al) /\ Numbers (h, HandOf (o, n), md)
  BY DEF Fits
<1>2. Source (h, o, n, None) /\ (o \in Mutable => Free (h) \cap al = {o}) /\ (o \in Shared => Free (h) \cap al = {})
  BY <1>1, HandSource
<1>3. Free (h) \cap (al \ own) = {} /\ own \subseteq Free (h)
  BY <1>2 DEF Item
<1>4. Held (h, Empty, al \ own)
  BY <1>3, EmptyHolds
<1>5. \A p \in own : p \in Mutable /\ h.slot[p] = None /\ h.next[p] = None
  BY <1>2 DEF Source
<1>6. Living (h, al \ own)
  BY <1>1, <1>5 DEF Living
<1>7. Numbers (h, Empty, Fewer (md, KindOf[o], n))
  <2> DEFINE k == KindOf[o]
             nd == Fewer (md, k, n)
  <2>1. ASSUME NEW j \in Kinds
        PROVE  nd[j] = Counted (h, Slot, j) + InHand (Empty, j) /\ nd[j] \in Nat
    <3>1. InHand (HandOf (o, n), j) = (IF k = j THEN n ELSE 0) /\ InHand (Empty, j) = 0
      BY HandIs
    <3>2. md[j] = Counted (h, Slot, j) + InHand (HandOf (o, n), j)
      BY <1>1 DEF Numbers
    <3>3. nd[j] = md[j] - (IF j = k THEN n ELSE 0)
      BY DEF Fewer
    <3>4. Counted (h, Slot, j) \in Nat
      <4>1. Slot \in SUBSET Slot /\ h \in HeapType
        BY <1>1 DEF Good
      <4>2. QED
        BY <4>1, CountedType
    <3> HIDE DEF nd, k
    <3>5. QED
      BY <3>1, <3>2, <3>3, <3>4
  <2>2. nd = [j \in Kinds |-> nd[j]]
    BY DEF Fewer
  <2> HIDE DEF nd
  <2>3. nd \in [Kinds -> Nat]
    BY <2>1, <2>2
  <2>4. Numbers (h, Empty, nd)
    BY <2>1, <2>3 DEF Numbers
  <2>5. QED
    BY <2>4 DEF nd
<1>8. QED
  BY <1>1, <1>4, <1>6, <1>7 DEF Fits

LEMMA GainNone ==
  ASSUME NEW j, NEW k, NEW m
  PROVE  Gain (j, k, None, m) = IF j = k THEN m ELSE 0
BY DEF Gain

\* Items that were in no slot come to slots while the hand keeps what it has.
LEMMA FitsArrive ==
  ASSUME ItemAssumption, InventoriesAssumption, NEW h, NEW hd, NEW be, NEW nd, NEW U, Fits (h, hd, be, nd, U),
         NEW o \in Item, NEW n \in Nat, o \in Mutable => n = 1, NEW own, own = {o} \cap Mutable, own \cap be = {},
         NEW g, NEW V, Came (h, g, V, None, o, n)
  PROVE  Fits (g, hd, be \cup own, More (nd, KindOf[o], n), V)
<1>1. Good (h) /\ Good (g) /\ EmptyOutside (g, V) /\ Living (h, be) /\ Held (h, hd, be) /\ Numbers (h, hd, nd)
      /\ Frame (h, g) /\ h \in HeapType
  BY DEF Fits, Came, Good
<1>2. Free (g) = Free (h) \ own
  <2>1. CASE o \in Mutable
    <3>1. n > 0 /\ own = {o}
      BY <2>1
    <3>2. QED
      BY <2>1, <3>1 DEF Came
  <2>2. CASE o \notin Mutable
    <3>1. own = {}
      BY <2>2
    <3>2. QED
      BY <2>2, <3>1 DEF Came
  <2>3. QED
    BY <2>1, <2>2
<1>3. Free (g) \cap (be \cup own) = Free (h) \cap be /\ be \cup own \subseteq Mutable
  BY <1>1, <1>2 DEF Living
<1>4. LeftOut (g, be, be \cup own)
  BY <1>1, <1>2 DEF LeftOut, Living, Free
<1>5. Numbers (g, hd, More (nd, KindOf[o], n))
  <2> DEFINE k == KindOf[o]
  <2>1. \A j \in Kinds : Counted (g, Slot, j) = Counted (h, Slot, j) + IF j = k THEN n ELSE 0
    BY GainNone DEF Came
  <2>2. \A j \in Kinds : Counted (h, Slot, j) \in Nat /\ InHand (hd, j) \in Nat
    <3>1. Slot \in SUBSET Slot
      OBVIOUS
    <3>2. QED
      BY <1>1, <3>1, CountedType, HandNatural
  <2> HIDE DEF k
  <2>3. Numbers (g, hd, More (nd, k, n))
    BY <1>1, <2>1, <2>2, NumbersGrow
  <2>4. QED
    BY <2>3 DEF k
<1>6. QED
  BY <1>1, <1>3, <1>4, <1>5, FitsOn

\* The hand takes shared items that are in no slot.
LEMMA FitsFetch ==
  ASSUME ItemAssumption, InventoriesAssumption, NEW h, NEW al, NEW md, NEW U, Fits (h, Empty, al, md, U),
         NEW o \in Shared, h.slot[o] = None, NEW n \in Nat \ {0}
  PROVE  Fits (h, HandOf (o, n), al, More (md, KindOf[o], n), U)
<1>1. Good (h) /\ EmptyOutside (h, U) /\ Living (h, al) /\ Held (h, Empty, al) /\ Numbers (h, Empty, md) /\ h \in HeapType
  BY DEF Fits, Good
<1>2. Free (h) \cap al = {} /\ o \in Item /\ o \notin Mutable
  BY <1>1, EmptyHolds DEF Item, ItemAssumption
<1>3. Held (h, HandOf (o, n), al)
  BY <1>2, HandHolds
<1>4. Numbers (h, HandOf (o, n), More (md, KindOf[o], n))
  <2> DEFINE k == KindOf[o]
             nd == More (md, k, n)
  <2>1. ASSUME NEW j \in Kinds
        PROVE  nd[j] = Counted (h, Slot, j) + InHand (HandOf (o, n), j) /\ nd[j] \in Nat
    <3>1. InHand (HandOf (o, n), j) = (IF k = j THEN n ELSE 0) /\ InHand (Empty, j) = 0
      BY <1>2, HandIs
    <3>2. md[j] = Counted (h, Slot, j) + InHand (Empty, j)
      BY <1>1 DEF Numbers
    <3>3. nd[j] = md[j] + (IF j = k THEN n ELSE 0)
      BY DEF More
    <3>4. Counted (h, Slot, j) \in Nat
      <4>1. Slot \in SUBSET Slot
        OBVIOUS
      <4>2. QED
        BY <1>1, <4>1, CountedType
    <3> HIDE DEF nd, k
    <3>5. QED
      BY <3>1, <3>2, <3>3, <3>4
  <2>2. nd = [j \in Kinds |-> nd[j]]
    BY DEF More
  <2> HIDE DEF nd
  <2>3. nd \in [Kinds -> Nat]
    BY <2>1, <2>2
  <2>4. Numbers (h, HandOf (o, n), nd)
    BY <2>1, <2>3 DEF Numbers
  <2>5. QED
    BY <2>4 DEF nd
<1>5. QED
  BY <1>1, <1>3, <1>4 DEF Fits

LEMMA MoreFewer ==
  ASSUME NEW md, md \in [Kinds -> Nat], NEW k, NEW n \in Nat, NEW m \in 0 .. n
  PROVE  More (More (Fewer (md, k, n), k, m), k, n - m) = md
<1> DEFINE a == Fewer (md, k, n)
           b == More (a, k, m)
           c == More (b, k, n - m)
<1>1. \A j \in Kinds : a[j] = md[j] - IF j = k THEN n ELSE 0
  BY DEF Fewer
<1>2. \A j \in Kinds : b[j] = a[j] + IF j = k THEN m ELSE 0
  BY DEF More
<1>3. \A j \in Kinds : c[j] = b[j] + IF j = k THEN n - m ELSE 0
  BY DEF More
<1>4. c = [j \in Kinds |-> c[j]]
  BY DEF More
<1> HIDE DEF a, b, c
<1>5. \A j \in Kinds : c[j] = md[j]
  BY <1>1, <1>2, <1>3
<1>6. c = md
  BY <1>4, <1>5
<1>7. QED
  BY <1>6 DEF a, b, c

LEMMA MoreNothing ==
  ASSUME NEW md, md \in [Kinds -> Nat], NEW k
  PROVE  More (md, k, 0) = md
<1>1. \A j \in Kinds : More (md, k, 0)[j] = md[j]
  BY DEF More
<1>2. More (md, k, 0) = [j \in Kinds |-> More (md, k, 0)[j]]
  BY DEF More
<1>3. QED
  BY <1>1, <1>2

\* The hand keeps what was not added.
LEMMA FitsFromHand ==
  ASSUME ItemAssumption, InventoriesAssumption, NEW h, NEW al, NEW md, NEW U,
         NEW o \in Item, NEW n \in Nat \ {0}, o \in Mutable => n = 1, Fits (h, HandOf (o, n), al, md, U),
         NEW m \in 0 .. n, NEW g, NEW V, Came (h, g, V, None, o, m)
  PROVE  Fits (g, HandAfter (o, n - m), al, md, V)
<1> DEFINE own == {o} \cap Mutable
           k == KindOf[o]
<1>1. Held (h, HandOf (o, n), al) /\ md \in [Kinds -> Nat] /\ Living (h, al)
  BY DEF Fits, Numbers
<1>2. Source (h, o, n, None) /\ (o \in Mutable => Free (h) \cap al = {o})
  BY <1>1, HandSource
<1>3. n \in Nat /\ m \in Nat /\ n - m \in Nat
  OBVIOUS
<1>4. CASE o \in Mutable /\ m = 0
  <2>1. n - m = n /\ n # 0
    BY <1>3, <1>4
  <2>2. HandAfter (o, n - m) = HandOf (o, n)
    BY <2>1 DEF HandAfter, HandOf
  <2>3. Fits (g, HandOf (o, n), al, md, V)
    BY <1>4, FitsFromSlot
  <2>4. QED
    BY <2>2, <2>3
<1>5. CASE ~ (o \in Mutable /\ m = 0)
  <2> HIDE DEF k, own
  <2>1. Fits (h, Empty, al \ own, Fewer (md, k, n), U)
    BY FitsAside DEF k, own
  <2>2. (o \in Mutable => m = 1) /\ own \cap (al \ own) = {}
    BY <1>3, <1>5
  <2>3. (al \ own) \cup own = al
    BY <1>2 DEF own, Item
  <2>4. Fits (g, Empty, (al \ own) \cup own, More (Fewer (md, k, n), k, m), V)
    <3> DEFINE be == al \ own
               nd == Fewer (md, k, n)
    <3>1. Fits (h, Empty, be, nd, U) /\ own \cap be = {} /\ own = {o} \cap Mutable
      BY <2>1, <2>2 DEF own
    <3> HIDE DEF be, nd
    <3>2. Fits (g, Empty, be \cup own, More (nd, KindOf[o], m), V)
      BY <1>3, <2>2, <3>1, FitsArrive
    <3>3. QED
      BY <3>2 DEF be, nd, k
  <2> DEFINE nd == More (Fewer (md, k, n), k, m)
  <2>5. Fits (g, Empty, al, nd, V)
    BY <2>3, <2>4
  <2>6. More (nd, k, n - m) = md
    BY <1>1, <1>3, MoreFewer
  <2> HIDE DEF nd
  <2>7. CASE n - m = 0
    <3>1. HandAfter (o, n - m) = Empty
      BY <2>7 DEF HandAfter
    <3>2. nd \in [Kinds -> Nat]
      BY <2>5 DEF Fits, Numbers
    <3>3. nd = md
      BY <2>6, <2>7, <3>2, MoreNothing
    <3>4. QED
      BY <2>5, <3>1, <3>3
  <2>8. CASE n - m # 0
    <3>1. o \in Shared /\ n - m \in Nat \ {0}
      BY <1>3, <2>2, <2>8 DEF Item
    <3>2. h.slot[o] = None
      BY <1>2 DEF Source
    <3>3. g.slot[o] = None
      BY <3>1, <3>2 DEF Came, Frame
    <3> DEFINE q == n - m
    <3>4. q \in Nat \ {0}
      BY <3>1
    <3> HIDE DEF q
    <3>5. Fits (g, HandOf (o, q), al, More (nd, KindOf[o], q), V)
      BY <2>5, <3>1, <3>3, <3>4, FitsFetch
    <3>6. HandAfter (o, n - m) = HandOf (o, q)
      BY <2>8 DEF HandAfter, HandOf, q
    <3>7. More (nd, KindOf[o], q) = md
      BY <2>6 DEF q, k
    <3>8. QED
      BY <3>5, <3>6, <3>7
  <2>9. QED
    BY <2>7, <2>8
<1>6. QED
  BY <1>4, <1>5

\* A new mutable item is in the hand.
LEMMA FitsMade ==
  ASSUME ItemAssumption, InventoriesAssumption, NEW h, NEW al, NEW md, NEW U, Fits (h, Empty, al, md, U),
         NEW o \in Mutable, o \notin al
  PROVE  Fits (h, HandOf (o, 1), al \cup {o}, More (md, KindOf[o], 1), U)
<1>1. Good (h) /\ EmptyOutside (h, U) /\ Living (h, al) /\ Held (h, Empty, al) /\ Numbers (h, Empty, md) /\ h \in HeapType
      /\ 1 \in Nat \ {0} /\ o \in Item /\ o \notin Shared
  BY DEF Fits, Good, Item, ItemAssumption
<1>2. Free (h) \cap al = {} /\ al \subseteq Mutable
  BY <1>1, EmptyHolds DEF Living
<1>3. h.slot[o] = None /\ h.next[o] = None
  BY <1>1 DEF Living
<1>4. Free (h) \cap (al \cup {o}) = {o}
  BY <1>2, <1>3 DEF Free
<1>5. Held (h, HandOf (o, 1), al \cup {o})
  <2> DEFINE c == [i \in 1 .. 1 |-> o]
  <2>1. (\A i \in 1 .. 1 : c[i] = o /\ i = 1) /\ 1 \in 1 .. 1 /\ c[1] = o
    OBVIOUS
  <2> HIDE DEF c
  <2>2. Loose (h, c, 1)
    BY <1>3, <2>1 DEF Loose, Chain
  <2>3. Elements (c, 1) = {o}
    BY <2>1 DEF Elements
  <2>4. Free (h) \cap (al \cup {o}) = Elements (c, 1)
    BY <1>4, <2>3
  <2>5. \E d : Loose (h, d, 1) /\ d[1] = o /\ Free (h) \cap (al \cup {o}) = Elements (d, 1)
    BY <2>1, <2>2, <2>4
  <2> DEFINE be == al \cup {o}
  <2> HIDE DEF be
  <2>6. o \in Mutable => \E d : Loose (h, d, 1) /\ d[1] = o /\ Free (h) \cap be = Elements (d, 1)
    BY <2>5 DEF be
  <2>7. Held (h, HandOf (o, 1), be)
    BY <1>1, <2>6, HandHolds
  <2>8. QED
    BY <2>7 DEF be
<1>6. Living (h, al \cup {o})
  BY <1>1 DEF Living
<1>7. Numbers (h, HandOf (o, 1), More (md, KindOf[o], 1))
  <2> DEFINE k == KindOf[o]
             nd == More (md, k, 1)
  <2>1. ASSUME NEW j \in Kinds
        PROVE  nd[j] = Counted (h, Slot, j) + InHand (HandOf (o, 1), j) /\ nd[j] \in Nat
    <3>1. InHand (HandOf (o, 1), j) = (IF k = j THEN 1 ELSE 0) /\ InHand (Empty, j) = 0
      BY <1>1, HandIs
    <3>2. md[j] = Counted (h, Slot, j) + InHand (Empty, j)
      BY <1>1 DEF Numbers
    <3>3. nd[j] = md[j] + (IF j = k THEN 1 ELSE 0)
      BY DEF More
    <3>4. Counted (h, Slot, j) \in Nat
      <4>1. Slot \in SUBSET Slot
        OBVIOUS
      <4>2. QED
        BY <1>1, <4>1, CountedType
    <3> HIDE DEF nd, k
    <3>5. QED
      BY <3>1, <3>2, <3>3, <3>4
  <2>2. nd = [j \in Kinds |-> nd[j]]
    BY DEF More
  <2> HIDE DEF nd
  <2>3. nd \in [Kinds -> Nat]
    BY <2>1, <2>2
  <2>4. Numbers (h, HandOf (o, 1), nd)
    BY <2>1, <2>3 DEF Numbers
  <2>5. QED
    BY <2>4 DEF nd
<1>8. QED
  BY <1>1, <1>5, <1>6, <1>7 DEF Fits

-----------------------------------------------------------------------------
(* The actions. *)

LEMMA UseIs ==
  ASSUME slots \in [Inventory -> Seq (Slot \ {Tmp})]
  PROVE  /\ InUse \subseteq Slot \ {Tmp}
         /\ \A i \in Inventory : SlotsOf (i) \subseteq InUse
<1>1. \A i \in Inventory : SlotsOf (i) \subseteq InUse
  BY DEF InUse
<1>2. \A i \in Inventory : SlotsOf (i) \subseteq Slot \ {Tmp}
  <2>1. SUFFICES ASSUME NEW i \in Inventory PROVE SlotsOf (i) \subseteq Slot \ {Tmp}
    OBVIOUS
  <2>2. /\ \A j \in 1 .. Len (slots[i]) : slots[i][j] \in Slot \ {Tmp}
        /\ SlotsOf (i) = {slots[i][j] : j \in 1 .. Len (slots[i])}
    BY SlotList
  <2>3. QED
    BY <2>2
<1>3. QED
  BY <1>1, <1>2 DEF InUse

LEMMA SameUse ==
  ASSUME slots' = slots
  PROVE  InUse' = InUse
BY DEF InUse, SlotsOf

LEMMA GrownUse ==
  ASSUME slots \in [Inventory -> Seq (Slot \ {Tmp})], NEW i \in Inventory,
         NEW new, new \in Seq (Slot \ {Tmp}), slots' = [slots EXCEPT ![i] = @ \o new]
  PROVE  /\ slots' \in [Inventory -> Seq (Slot \ {Tmp})]
         /\ InUse' = InUse \cup ToSet (new)
<1> DEFINE S == Slot \ {Tmp}
           list == slots[i]
<1>1. list \in Seq (S)
  OBVIOUS
<1> HIDE DEF S
<1>2. list \o new \in Seq (S) /\ ToSet (list \o new) = ToSet (list) \cup ToSet (new)
  <2>1. list \in Seq (S) /\ new \in Seq (S)
    BY <1>1 DEF S
  <2>2. /\ list \o new \in Seq (S) /\ Len (list \o new) = Len (list) + Len (new)
        /\ \A j \in 1 .. Len (list) + Len (new) :
             (list \o new)[j] = IF j <= Len (list) THEN list[j] ELSE new[j - Len (list)]
    BY <2>1, ConcatProperties
  <2>3. Len (list) \in Nat /\ Len (new) \in Nat /\ DOMAIN list = 1 .. Len (list) /\ DOMAIN new = 1 .. Len (new)
        /\ DOMAIN (list \o new) = 1 .. Len (list \o new)
    BY <2>1, <2>2, LenProperties
  <2> DEFINE all == list \o new
  <2> HIDE DEF list, all
  <2>4. \A j \in DOMAIN all : all[j] \in ToSet (list) \cup ToSet (new)
    <3>1. SUFFICES ASSUME NEW j \in DOMAIN all PROVE all[j] \in ToSet (list) \cup ToSet (new)
      OBVIOUS
    <3>2. j \in 1 .. Len (list) + Len (new)
      BY <2>2, <2>3 DEF all
    <3>3. CASE j <= Len (list)
      <4>1. j \in DOMAIN list /\ all[j] = list[j]
        BY <2>2, <2>3, <3>2, <3>3 DEF all
      <4>2. QED
        BY <4>1 DEF ToSet
    <3>4. CASE ~ (j <= Len (list))
      <4>1. j - Len (list) \in DOMAIN new /\ all[j] = new[j - Len (list)]
        BY <2>2, <2>3, <3>2, <3>4 DEF all
      <4>2. QED
        BY <4>1 DEF ToSet
    <3>5. QED
      BY <3>3, <3>4
  <2>5. \A j \in DOMAIN list : list[j] \in ToSet (all)
    <3>1. SUFFICES ASSUME NEW j \in DOMAIN list PROVE list[j] \in ToSet (all)
      OBVIOUS
    <3>2. j \in DOMAIN all /\ all[j] = list[j]
      BY <2>2, <2>3 DEF all
    <3>3. QED
      BY <3>2 DEF ToSet
  <2>6. \A j \in DOMAIN new : new[j] \in ToSet (all)
    <3>1. SUFFICES ASSUME NEW j \in DOMAIN new PROVE new[j] \in ToSet (all)
      OBVIOUS
    <3>2. j + Len (list) \in DOMAIN all /\ ~ (j + Len (list) <= Len (list)) /\ (j + Len (list)) - Len (list) = j
          /\ j + Len (list) \in 1 .. Len (list) + Len (new)
      BY <2>2, <2>3 DEF all
    <3>3. all[j + Len (list)] = new[j]
      BY <2>2, <3>2 DEF all
    <3>4. QED
      BY <3>2, <3>3 DEF ToSet
  <2>7. ToSet (all) = ToSet (list) \cup ToSet (new)
    BY <2>4, <2>5, <2>6 DEF ToSet
  <2>8. QED
    BY <2>2, <2>7 DEF all
<1>3. slots' \in [Inventory -> Seq (Slot \ {Tmp})]
  BY <1>2 DEF S
<1>4. SlotsOf (i)' = SlotsOf (i) \cup ToSet (new)
  BY <1>2 DEF SlotsOf
<1>5. \A j \in Inventory : j # i => SlotsOf (j)' = SlotsOf (j)
  BY DEF SlotsOf
<1>6. InUse' = InUse \cup ToSet (new)
  <2>1. InUse' = UNION {SlotsOf (j)' : j \in Inventory}
    BY DEF InUse
  <2>2. QED
    BY <1>4, <1>5, <2>1 DEF InUse
<1>7. QED
  BY <1>3, <1>6

LEMMA EmptyFresh ==
  ASSUME NEW h, EmptyOutside (h, InUse)
  PROVE  \A u \in Fresh : h.count[u] = 0
BY DEF Fresh, EmptyOutside

LEMMA HandHeld ==
  ASSUME ItemAssumption, NEW h, NEW hd, NEW al, Held (h, hd, al), hd # Empty
  PROVE  /\ hd.item \in Item /\ hd.count \in Nat \ {0}
         /\ hd = HandOf (hd.item, hd.count)
<1>1. hd.item \in Item /\ hd.count \in Nat \ {0}
  BY DEF Held, Item
<1>2. hd \in [item : Item, count : Nat \ {0}]
  <2>1. hd \in [item : Shared, count : Nat \ {0}] \/ hd \in [item : Mutable, count : Nat \ {0}]
    BY DEF Held
  <2>2. Shared \subseteq Item /\ Mutable \subseteq Item
    BY DEF Item
  <2>3. QED
    BY <2>1, <2>2
<1>3. hd = HandOf (hd.item, hd.count)
  BY <1>2 DEF HandOf
<1>4. QED
  BY <1>1, <1>3

\* The slots in use, perhaps with that of inventory::combine.
Using (U) == InUse \subseteq U /\ U \subseteq InUse \cup {Tmp}

\* inventory::add took items from t.
Landed (h, r, U, t, o, n) ==
  /\ r.rest \in 0 .. n /\ r.hung = FALSE /\ r.new \in Seq (Slot \ {Tmp})
  /\ Came (h, r.heap, U \cup ToSet (r.new), t, o, n - r.rest)

\* Items go from t to inventory i.
LEMMA InvAddCame ==
  ASSUME ItemAssumption, InventoriesAssumption, slots \in [Inventory -> Seq (Slot \ {Tmp})], NEW i \in Inventory,
         NEW h, Good (h), NEW U, Using (U), EmptyOutside (h, U),
         NEW t, t = None \/ t \in U, NEW o \in Item, NEW n \in Nat, o \in Mutable => n = 1,
         Source (h, o, n, t), NEW r, r = InvAdd (h, i, o, n)
  PROVE  Landed (h, r, U, t, o, n)
<1>1. InUse \subseteq Slot \ {Tmp} /\ SlotsOf (i) \subseteq InUse /\ InUse \subseteq U /\ U \subseteq InUse \cup {Tmp}
  BY UseIs DEF Using
<1>2. U \subseteq Slot /\ t \in Slot \cup {None} /\ t \notin Fresh
  BY <1>1 DEF InventoriesAssumption, Fresh, ItemAssumption
<1>3. \A u \in Fresh : h.count[u] = 0
  BY <1>1 DEF Fresh, EmptyOutside
<1>4. InvAdded (h, r, i, t, o, n)
  BY <1>2, <1>3, InvAddIs
<1>5. /\ r.rest \in 0 .. n /\ r.hung = FALSE /\ r.new \in Seq (Slot \ {Tmp}) /\ ToSet (r.new) \subseteq Fresh
      /\ Running (h, r.heap, SlotsOf (i) \cup ToSet (r.new), t, o, n, r.rest)
  BY <1>4 DEF InvAdded
<1> DEFINE D == SlotsOf (i) \cup ToSet (r.new)
           V == U \cup ToSet (r.new)
           g == r.heap
           q == r.rest
<1>6. D \subseteq V /\ U \subseteq V /\ V \subseteq Slot /\ t \in V \cup {None} /\ q \in 0 .. n
      /\ Running (h, g, D, t, o, n, q)
  BY <1>1, <1>2, <1>5 DEF Fresh
<1> HIDE DEF D, V, g, q
<1>7. Came (h, g, V, t, o, n - q)
  BY <1>6, CameRunning
<1>8. QED
  BY <1>5, <1>7 DEF V, g, q, Landed

LEMMA PutIntoStep ==
  ASSUME ItemAssumption, InventoriesAssumption, Careful, IInv, NEW i \in Inventory, PutInto (i)
  PROVE  IInv'
<1> DEFINE o == hand.item
           n == hand.count
<1>1. slots \in [Inventory -> Seq (Slot \ {Tmp})] /\ Fits (heap, hand, alive, made, InUse)
  BY DEF IInv
<1>2. Good (heap) /\ EmptyOutside (heap, InUse) /\ Held (heap, hand, alive)
  BY <1>1 DEF Fits
<1>3. o \in Item /\ n \in Nat \ {0} /\ hand = HandOf (o, n)
  BY <1>2, HandHeld DEF PutInto
<1>4. o \in Mutable => n = 1
  BY DEF PutInto, SmallEnough, Careful
<1> DEFINE r == InvAdd (heap, i, o, n)
<1>5. /\ heap' = r.heap
      /\ slots' = [slots EXCEPT ![i] = @ \o r.new]
      /\ hand' = HandAfter (o, r.rest)
      /\ hung' = r.hung
      /\ alive' = alive /\ made' = made
  BY DEF PutInto
<1> HIDE DEF o, n
<1>6. Source (heap, o, n, None)
  BY <1>2, <1>3, <1>4, HandSource
<1> HIDE DEF r
<1>7. /\ r.rest \in 0 .. n /\ r.hung = FALSE /\ r.new \in Seq (Slot \ {Tmp})
      /\ Came (heap, r.heap, InUse \cup ToSet (r.new), None, o, n - r.rest)
  <2>1. r = InvAdd (heap, i, o, n) /\ Using (InUse) /\ n \in Nat
    BY <1>3 DEF r, Using
  <2>2. Landed (heap, r, InUse, None, o, n)
    BY <1>1, <1>2, <1>3, <1>4, <1>6, <2>1, InvAddCame
  <2>3. QED
    BY <2>2 DEF Landed
<1> DEFINE m == n - r.rest
           g == r.heap
           V == InUse \cup ToSet (r.new)
<1>8. m \in 0 .. n /\ n - m = r.rest
  BY <1>3, <1>7
<1>9. Came (heap, g, V, None, o, m) /\ Fits (heap, HandOf (o, n), alive, made, InUse)
  BY <1>1, <1>3, <1>7
<1> HIDE DEF m, g, V
<1>10. Fits (g, HandAfter (o, n - m), alive, made, V)
  BY <1>3, <1>4, <1>8, <1>9, FitsFromHand
<1>11. Fits (heap', hand', alive', made', InUse')
  <2> DEFINE new == r.new
  <2>4. new \in Seq (Slot \ {Tmp}) /\ slots' = [slots EXCEPT ![i] = @ \o new]
    BY <1>5, <1>7
  <2> HIDE DEF new
  <2>5. InUse' = InUse \cup ToSet (new)
    BY <1>1, <2>4, GrownUse
  <2>1. InUse' = V
    BY <2>5 DEF V, new
  <2>2. heap' = g /\ hand' = HandAfter (o, n - m)
    BY <1>5, <1>8 DEF g
  <2>3. QED
    BY <1>5, <1>10, <2>1, <2>2
<1>12. slots' \in [Inventory -> Seq (Slot \ {Tmp})] /\ hung' = FALSE
  BY <1>1, <1>5, <1>7, GrownUse
<1>13. QED
  BY <1>11, <1>12 DEF IInv

\* Looking into a slot changes nothing, unless the hand holds such items.
LEMMA FitsLook ==
  ASSUME ItemAssumption, NEW h, NEW hd, NEW al, NEW md, NEW U, Fits (h, hd, al, md, U),
         NEW s \in Slot, h.held[s] # None, h.held[s] \in Shared => h.held[s] # hd.item,
         NEW g, g = GetItem (h, s)
  PROVE  /\ Fits (g, hd, al, md, U) /\ Good (g)
         /\ g.held = h.held /\ g.count = h.count /\ g.slot[h.held[s]] = s
         /\ \A k \in Shared : k # h.held[s] => g.slot[k] = h.slot[k]
<1>1. Good (h)
  BY DEF Fits
<1>2. Like (h, g) /\ g.slot[h.held[s]] = s /\ \A k \in Shared : k # h.held[s] => g.slot[k] = h.slot[k]
  BY <1>1, GetItemIs
<1>3. hd.item \in Shared => g.slot[hd.item] = h.slot[hd.item]
  BY <1>2
<1>4. Fits (g, hd, al, md, U)
  BY <1>2, <1>3, FitsLike
<1>5. QED
  BY <1>2, <1>4 DEF Like, Fits

\* The items in a slot come from there.
LEMMA SlotSource ==
  ASSUME ItemAssumption, NEW h, NEW s \in Slot, NEW o \in Item, h.held[s] = o, h.slot[o] = s,
         NEW n, n <= h.count[s]
  PROVE  Source (h, o, n, s)
BY DEF Source, ItemAssumption

\* slot::add of items from t.
LEMMA AddCame ==
  ASSUME ItemAssumption, InventoriesAssumption, NEW h, Good (h), NEW U, EmptyOutside (h, U), NEW s \in Slot, s \in U,
         NEW t, t \in Slot \cup {None}, NEW o \in Item, NEW n \in Nat, Source (h, o, n, t)
  PROVE  \E g : /\ AddItems (h, s, o, n) = [heap |-> g, rest |-> n - Takes (h, s, o, n)]
                /\ Takes (h, s, o, n) \in 0 .. n
                /\ Came (h, g, U, t, o, Takes (h, s, o, n))
                /\ Added (h, g, s, t, o, Takes (h, s, o, n))
<1> DEFINE q == Takes (h, s, o, n)
<1>1. q \in 0 .. n
  BY TakesAtMost
<1>2. PICK g : AddItems (h, s, o, n) = [heap |-> g, rest |-> n - q] /\ Added (h, g, s, t, o, q)
  BY AddItemsAdds
<1> HIDE DEF q
<1>3. q \in Nat
  BY <1>1
<1>4. Came (h, g, U, t, o, q)
  BY <1>2, <1>3, CameAdded
<1>5. QED
  BY <1>1, <1>2, <1>4 DEF q

\* Shared items that are told to be in no slot.
LEMMA FitsTold ==
  ASSUME ItemAssumption, NEW h, NEW hd, NEW al, NEW md, NEW U, Fits (h, hd, al, md, U), NEW o \in Shared
  PROVE  /\ Fits (Told (h, o, None), hd, al, md, U)
         /\ Told (h, o, None).slot[o] = None
         /\ Like (h, Told (h, o, None))
         /\ \A p \in Item : p # o => Told (h, o, None).slot[p] = h.slot[p]
<1> DEFINE g == Told (h, o, None)
<1>1. h \in HeapType /\ Held (h, hd, al) /\ None \in Slot \cup {None} /\ o \in Item
  BY DEF Fits, Good, Item
<1>2. Like (h, g) /\ g.slot = [h.slot EXCEPT ![o] = None] /\ g.slot[o] = None
  BY <1>1, ToldIs
<1>3. h.slot \in [Item -> Slot \cup {None}]
  BY <1>1, HeapIs
<1> HIDE DEF g
<1>4. \A p \in Item : p # o => g.slot[p] = h.slot[p]
  BY <1>2, <1>3
<1>5. hd.item \in Shared => h.slot[hd.item] = None
  <2>1. None \notin Shared /\ Empty.item = None /\ Shared \cap Mutable = {}
    BY DEF ItemAssumption, Empty
  <2>2. QED
    BY <1>1, <2>1 DEF Held
<1>6. hd.item \in Shared => g.slot[hd.item] = h.slot[hd.item]
  BY <1>2, <1>4, <1>5 DEF Item
<1>7. Fits (g, hd, al, md, U)
  BY <1>2, <1>6, FitsLike
<1>8. QED
  BY <1>2, <1>4, <1>7 DEF g

LEMMA FitsNotify ==
  ASSUME ItemAssumption, NEW h, NEW hd, NEW al, NEW md, NEW U, Fits (h, hd, al, md, U), NEW o
  PROVE  Fits (Notify (h, o), hd, al, md, U)
<1>1. CASE o \in Shared /\ o \in Notified
  <2>1. Notify (h, o) = Told (h, o, None)
    BY <1>1 DEF Notify, Told
  <2>2. QED
    BY <1>1, <2>1, FitsTold
<1>2. CASE ~ (o \in Shared /\ o \in Notified)
  BY <1>2 DEF Notify
<1>3. QED
  BY <1>1, <1>2

\* A slot that all is taken out of is empty.
LEMMA RemovedAll ==
  ASSUME ItemAssumption, NEW h, Good (h), NEW t \in Slot, NEW p \in Item, h.held[t] = p,
         NEW g, Removed (h, g, t, p, h.count[t])
  PROVE  g.held[t] = None /\ g.count[t] = 0
<1>1. Good (g) /\ h \in HeapType /\ t # None /\ p # None /\ Moved (h, g, None, t, KindOf[p], h.count[t])
      /\ h.count[t] \in Nat
  BY GoodSlot DEF Removed, ItemAssumption, Item
<1>2. \A j \in Kinds : Amount (g, t, j) = 0
  <2>1. SUFFICES ASSUME NEW j \in Kinds PROVE Amount (g, t, j) = 0
    OBVIOUS
  <2>2. Amount (g, t, j) = Amount (h, t, j) + (IF t = None /\ j = KindOf[p] THEN h.count[t] ELSE 0)
                             - (IF t = t /\ j = KindOf[p] THEN h.count[t] ELSE 0)
    BY <1>1 DEF Moved
  <2>3. Amount (h, t, j) = IF KindOf[p] = j THEN h.count[t] ELSE 0
    BY <1>1 DEF Amount
  <2>4. QED
    BY <1>1, <2>2, <2>3
<1>3. g.count[t] = 0
  BY <1>1, <1>2, EmptySlot
<1>4. QED
  BY <1>1, <1>3, GoodSlot

\* What is elsewhere does not notice that items are taken out of a slot.
LEMMA SourceBeside ==
  ASSUME ItemAssumption, NEW h, Good (h), NEW t \in Slot, NEW p \in Item, NEW c \in Nat, NEW g, Removed (h, g, t, p, c),
         NEW o \in Item, o # p, NEW n, NEW s, s # t, Source (h, o, n, s)
  PROVE  Source (g, o, n, s)
<1>1. Good (g) /\ h \in HeapType /\ g \in HeapType /\ None \notin Slot /\ Moved (h, g, None, t, KindOf[p], c)
      /\ FrameBut (h, g, p) /\ Beside (h, g, t)
  BY DEF Removed, Good, ItemAssumption
<1>2. g.slot[o] = h.slot[o]
  <2>1. CASE o \in Mutable
    <3>1. h.slot[o] = s
      BY DEF Source
    <3>2. QED
      BY <1>1, <2>1, <3>1 DEF Beside
  <2>2. CASE o \notin Mutable
    BY <1>1, <2>2 DEF FrameBut, Item
  <2>3. QED
    BY <2>1, <2>2
<1>3. CASE s = None
  <2>1. h.slot[o] = None /\ (o \in Mutable => n = 1 /\ h.next[o] = None)
    BY <1>3 DEF Source
  <2>2. o \in Mutable => g.next[o] = None
    BY <1>1, <1>2, <2>1 DEF FrameBut, Free
  <2>3. QED
    BY <1>2, <1>3, <2>1, <2>2 DEF Source
<1>4. CASE s # None
  <2>1. s \in Slot /\ h.held[s] = o /\ h.slot[o] = s /\ n <= h.count[s]
    BY <1>4 DEF Source
  <2>2. g.held[s] = o
    BY <1>1, <2>1 DEF Beside
  <2>3. o # None /\ KindOf[o] \in Kinds
    BY DEF Item, ItemAssumption, Kinds
  <2>4. Amount (g, s, KindOf[o]) = Amount (h, s, KindOf[o])
    <3> DEFINE k == KindOf[o]
    <3>1. Amount (g, s, k) = Amount (h, s, k) + (IF s = None /\ k = KindOf[p] THEN c ELSE 0)
                               - (IF s = t /\ k = KindOf[p] THEN c ELSE 0)
      BY <1>1, <2>1, <2>3 DEF Moved
    <3>2. Amount (h, s, k) \in Nat
      BY <1>1, <2>1, AmountType
    <3> HIDE DEF k
    <3>3. Amount (g, s, k) = Amount (h, s, k)
      BY <1>4, <3>1, <3>2
    <3>4. QED
      BY <3>3 DEF k
  <2>5. g.count[s] = h.count[s]
    BY <2>1, <2>2, <2>3, <2>4 DEF Amount
  <2>6. QED
    BY <1>2, <1>4, <2>1, <2>2, <2>5 DEF Source
<1>5. QED
  BY <1>3, <1>4

LEMMA InOrder ==
  ASSUME IInv
  PROVE  /\ slots \in [Inventory -> Seq (Slot \ {Tmp})] /\ hung = FALSE
         /\ Fits (heap, hand, alive, made, InUse)
         /\ Good (heap) /\ EmptyOutside (heap, InUse) /\ Living (heap, alive) /\ Held (heap, hand, alive)
         /\ made \in [Kinds -> Nat] /\ InUse \subseteq Slot \ {Tmp}
BY UseIs DEF IInv, Fits, Numbers

LEMMA InOrderStill ==
  ASSUME IInv, slots' = slots, hung' = hung, Fits (heap', hand', alive', made', InUse)
  PROVE  IInv'
<1>1. InUse' = InUse
  BY SameUse
<1>2. QED
  BY <1>1 DEF IInv

LEMMA MadeMore ==
  ASSUME NEW md, md \in [Kinds -> Nat], NEW k, NEW n \in Nat
  PROVE  [md EXCEPT ![k] = @ + n] = More (md, k, n)
<1> DEFINE a == [md EXCEPT ![k] = @ + n]
           b == More (md, k, n)
<1>1. \A j \in Kinds : a[j] = IF j = k THEN md[j] + n ELSE md[j]
  OBVIOUS
<1>2. \A j \in Kinds : b[j] = md[j] + IF j = k THEN n ELSE 0
  BY DEF More
<1>3. a = [j \in Kinds |-> a[j]] /\ b = [j \in Kinds |-> b[j]]
  BY DEF More
<1> HIDE DEF a, b
<1>4. \A j \in Kinds : a[j] = b[j]
  BY <1>1, <1>2
<1>5. a = b
  BY <1>3, <1>4
<1>6. QED
  BY <1>5 DEF a, b

LEMMA MadeFewer ==
  ASSUME NEW md, md \in [Kinds -> Nat], NEW k, NEW n \in Nat
  PROVE  [md EXCEPT ![k] = @ - n] = Fewer (md, k, n)
<1> DEFINE a == [md EXCEPT ![k] = @ - n]
           b == Fewer (md, k, n)
<1>1. \A j \in Kinds : a[j] = IF j = k THEN md[j] - n ELSE md[j]
  OBVIOUS
<1>2. \A j \in Kinds : b[j] = md[j] - IF j = k THEN n ELSE 0
  BY DEF Fewer
<1>3. a = [j \in Kinds |-> a[j]] /\ b = [j \in Kinds |-> b[j]]
  BY DEF Fewer
<1> HIDE DEF a, b
<1>4. \A j \in Kinds : a[j] = b[j]
  BY <1>1, <1>2
<1>5. a = b
  BY <1>3, <1>4
<1>6. QED
  BY <1>5 DEF a, b

LEMMA CreateStep ==
  ASSUME ItemAssumption, InventoriesAssumption, IInv, NEW o \in Mutable, Create (o)
  PROVE  IInv'
<1>1. Fits (heap, Empty, alive, made, InUse) /\ o \notin alive /\ made \in [Kinds -> Nat]
  BY InOrder DEF Create
<1>2. Fits (heap, HandOf (o, 1), alive \cup {o}, More (made, KindOf[o], 1), InUse)
  BY <1>1, FitsMade
<1>3. made' = More (made, KindOf[o], 1)
  <2> DEFINE k == KindOf[o]
  <2>1. made' = [made EXCEPT ![k] = @ + 1]
    BY DEF Create
  <2> HIDE DEF k
  <2>2. made' = More (made, k, 1)
    BY <1>1, <2>1, MadeMore
  <2>3. QED
    BY <2>2 DEF k
<1>4. heap' = heap /\ hand' = HandOf (o, 1) /\ alive' = alive \cup {o} /\ slots' = slots /\ hung' = hung
  BY DEF Create, HandOf
<1>5. QED
  BY <1>2, <1>3, <1>4, InOrderStill

LEMMA FetchStep ==
  ASSUME ItemAssumption, InventoriesAssumption, IInv, NEW k \in Shared, NEW n \in 1 .. MaxMade, Fetch (k, n)
  PROVE  IInv'
<1>1. Fits (heap, Empty, alive, made, InUse) /\ made \in [Kinds -> Nat] /\ KindOf[k] = k /\ n \in Nat \ {0}
  BY InOrder DEF Fetch, ItemAssumption
<1> DEFINE g == Told (heap, k, None)
<1>2. Fits (g, Empty, alive, made, InUse) /\ g.slot[k] = None
  BY <1>1, FitsTold
<1> HIDE DEF g
<1>3. Fits (g, HandOf (k, n), alive, More (made, KindOf[k], n), InUse)
  BY <1>1, <1>2, FitsFetch
<1>4. made' = More (made, k, n)
  <2>1. made' = [made EXCEPT ![k] = @ + n]
    BY DEF Fetch
  <2>2. QED
    BY <1>1, <2>1, MadeMore
<1>5. heap' = g /\ hand' = HandOf (k, n) /\ alive' = alive /\ slots' = slots /\ hung' = hung
  BY DEF Fetch, HandOf, FromStorage, Told, g
<1>6. QED
  BY <1>1, <1>3, <1>4, <1>5, InOrderStill

LEMMA PutSlotStep ==
  ASSUME ItemAssumption, InventoriesAssumption, Careful, IInv, NEW s \in InUse, PutSlot (s)
  PROVE  IInv'
<1> DEFINE o == hand.item
           n == hand.count
<1>1. /\ Fits (heap, hand, alive, made, InUse) /\ Good (heap) /\ EmptyOutside (heap, InUse)
      /\ Held (heap, hand, alive) /\ s \in Slot /\ s \in InUse
  BY InOrder
<1>2. o \in Item /\ n \in Nat \ {0} /\ hand = HandOf (o, n) /\ n \in Nat
  BY <1>1, HandHeld DEF PutSlot
<1>3. o \in Mutable => n = 1
  BY DEF PutSlot, SmallEnough, Careful
<1>4. /\ heap' = AddItems (heap, s, o, n).heap
      /\ hand' = HandAfter (o, AddItems (heap, s, o, n).rest)
      /\ alive' = alive /\ made' = made /\ slots' = slots /\ hung' = hung
  BY DEF PutSlot
<1> HIDE DEF o, n
<1>5. Source (heap, o, n, None) /\ None \in Slot \cup {None}
  BY <1>1, <1>2, <1>3, HandSource
<1> DEFINE q == Takes (heap, s, o, n)
<1>6. PICK g : AddItems (heap, s, o, n) = [heap |-> g, rest |-> n - q] /\ q \in 0 .. n /\ Came (heap, g, InUse, None, o, q)
  BY <1>1, <1>2, <1>5, AddCame
<1> HIDE DEF q
<1>7. Fits (g, HandAfter (o, n - q), alive, made, InUse)
  BY <1>1, <1>2, <1>3, <1>6, FitsFromHand
<1>8. heap' = g /\ hand' = HandAfter (o, n - q)
  BY <1>4, <1>6
<1>9. QED
  BY <1>4, <1>7, <1>8, InOrderStill

\* What scripts may look up.
LEMMA LookUp ==
  ASSUME ItemAssumption, InventoriesAssumption, Careful, IInv, NEW s \in InUse, heap.held[s] # None, MayLook (s),
         NEW h, h = GetItem (heap, s)
  PROVE  /\ Fits (h, hand, alive, made, InUse) /\ Good (h) /\ EmptyOutside (h, InUse)
         /\ s \in Slot /\ heap.held[s] \in Item
         /\ h.held = heap.held /\ h.count = heap.count /\ h.slot[heap.held[s]] = s
         /\ heap.held[s] \in Shared => heap.held[s] # hand.item
<1>1. Fits (heap, hand, alive, made, InUse) /\ Good (heap) /\ s \in Slot
  BY InOrder
<1>2. heap.held[s] \in Shared => heap.held[s] # hand.item
  BY DEF MayLook, Careful
<1>3. heap.held[s] \in Item
  BY <1>1, GoodSlot
<1>4. Fits (h, hand, alive, made, InUse) /\ Good (h) /\ h.held = heap.held /\ h.count = heap.count /\ h.slot[heap.held[s]] = s
  BY <1>1, <1>2, FitsLook
<1>5. EmptyOutside (h, InUse)
  BY <1>4 DEF Fits
<1>6. QED
  BY <1>1, <1>2, <1>3, <1>4, <1>5

LEMMA LookStep ==
  ASSUME ItemAssumption, InventoriesAssumption, Careful, IInv, NEW s \in InUse, Look (s)
  PROVE  IInv'
<1> DEFINE h == GetItem (heap, s)
<1>1. heap.held[s] # None /\ MayLook (s) /\ h = GetItem (heap, s)
      /\ heap' = h /\ slots' = slots /\ hand' = hand /\ alive' = alive /\ made' = made /\ hung' = hung
  BY DEF Look
<1> HIDE DEF h
<1>2. Fits (h, hand, alive, made, InUse)
  BY <1>1, LookUp
<1>3. QED
  BY <1>1, <1>2, InOrderStill

LEMMA AmountsAre ==
  ASSUME Careful, NEW s, heap.count[s] \in Nat, NEW n \in Amounts (s)
  PROVE  n \in 1 .. heap.count[s]
<1>1. Amounts (s) = 1 .. heap.count[s]
  BY DEF Amounts, Careful
<1>2. QED
  BY <1>1

LEMMA MoveToStep ==
  ASSUME ItemAssumption, InventoriesAssumption, Careful, IInv, NEW s \in InUse, NEW n \in Amounts (s), NEW t \in InUse,
         MoveTo (s, t, n)
  PROVE  IInv'
<1> DEFINE h == GetItem (heap, s)
           o == heap.held[s]
<1>1. /\ heap.held[s] # None /\ MayLook (s) /\ h = GetItem (heap, s)
      /\ heap' = AddItems (h, t, o, n).heap
      /\ slots' = slots /\ hand' = hand /\ alive' = alive /\ made' = made /\ hung' = hung
  BY DEF MoveTo
<1>2. Good (heap) /\ t \in Slot /\ t \in InUse /\ s \in Slot
  BY InOrder
<1>3. n \in 1 .. heap.count[s] /\ n \in Nat
  BY <1>2, AmountsAre, GoodSlot
<1> HIDE DEF h
<1>4. /\ Fits (h, hand, alive, made, InUse) /\ Good (h) /\ EmptyOutside (h, InUse)
      /\ o \in Item /\ h.held[s] = o /\ h.count = heap.count /\ h.slot[o] = s
  BY <1>1, LookUp
<1> HIDE DEF o
<1>5. Source (h, o, n, s) /\ s \in Slot \cup {None}
  BY <1>2, <1>3, <1>4, SlotSource, GoodSlot
<1> DEFINE q == Takes (h, t, o, n)
<1>6. PICK g : AddItems (h, t, o, n) = [heap |-> g, rest |-> n - q] /\ Came (h, g, InUse, s, o, q)
  BY <1>2, <1>3, <1>4, <1>5, AddCame
<1> HIDE DEF q
<1>7. Fits (g, hand, alive, made, InUse)
  BY <1>2, <1>4, <1>6, FitsFromSlot
<1>8. QED
  BY <1>1, <1>6, <1>7, InOrderStill

LEMMA MoveIntoStep ==
  ASSUME ItemAssumption, InventoriesAssumption, Careful, IInv, NEW s \in InUse, NEW n \in Amounts (s),
         NEW i \in Inventory, MoveInto (s, i, n)
  PROVE  IInv'
<1> DEFINE h == GetItem (heap, s)
           o == heap.held[s]
           r == InvAdd (h, i, o, n)
<1>1. /\ heap.held[s] # None /\ MayLook (s) /\ h = GetItem (heap, s) /\ r = InvAdd (h, i, o, n)
      /\ heap' = r.heap
      /\ slots' = [slots EXCEPT ![i] = @ \o r.new]
      /\ hung' = r.hung
      /\ hand' = hand /\ alive' = alive /\ made' = made
  BY DEF MoveInto
<1>2. Good (heap) /\ s \in Slot /\ s \in InUse /\ slots \in [Inventory -> Seq (Slot \ {Tmp})]
  BY InOrder
<1>3. n \in 1 .. heap.count[s] /\ n \in Nat
  BY <1>2, AmountsAre, GoodSlot
<1>4. o \in Mutable => n = 1
  BY DEF MoveInto, SmallEnough, Careful
<1> HIDE DEF h, r
<1>5. /\ Fits (h, hand, alive, made, InUse) /\ Good (h) /\ EmptyOutside (h, InUse)
      /\ o \in Item /\ h.held[s] = o /\ h.count = heap.count /\ h.slot[o] = s
  BY <1>1, LookUp
<1> HIDE DEF o
<1>6. Source (h, o, n, s) /\ Using (InUse)
  <2>1. n <= h.count[s]
    BY <1>2, <1>3, <1>5, GoodSlot
  <2>2. Source (h, o, n, s)
    BY <1>2, <1>5, <2>1, SlotSource
  <2>3. QED
    BY <2>2 DEF Using
<1>7. Landed (h, r, InUse, s, o, n)
  BY <1>1, <1>2, <1>3, <1>4, <1>5, <1>6, InvAddCame
<1> DEFINE new == r.new
           m == n - r.rest
           g == r.heap
           V == InUse \cup ToSet (new)
<1>8. r.hung = FALSE /\ new \in Seq (Slot \ {Tmp}) /\ Came (h, g, V, s, o, m) /\ slots' = [slots EXCEPT ![i] = @ \o new]
  BY <1>1, <1>7 DEF Landed
<1> HIDE DEF new, m, g, V
<1>9. Fits (g, hand, alive, made, V)
  BY <1>2, <1>5, <1>8, FitsFromSlot
<1>10. slots' \in [Inventory -> Seq (Slot \ {Tmp})] /\ InUse' = InUse \cup ToSet (new)
  BY <1>2, <1>8, GrownUse
<1>11. Fits (heap', hand', alive', made', InUse')
  BY <1>1, <1>9, <1>10 DEF V, g
<1>12. QED
  BY <1>1, <1>8, <1>10, <1>11 DEF IInv

LEMMA TakeOutStep ==
  ASSUME ItemAssumption, InventoriesAssumption, Careful, IInv, NEW s \in InUse, NEW n \in Amounts (s), TakeOut (s, n)
  PROVE  IInv'
<1> DEFINE o == heap.held[s]
<1>1. /\ o # None
      /\ heap' = Unequip (heap, s, n).heap
      /\ hand' = [item |-> Unequip (heap, s, n).item, count |-> Unequip (heap, s, n).count]
      /\ slots' = slots /\ alive' = alive /\ made' = made /\ hung' = hung
  BY DEF TakeOut
<1>2. Good (heap) /\ s \in Slot /\ Fits (heap, Empty, alive, made, InUse)
  BY InOrder DEF TakeOut
<1>3. n \in 1 .. heap.count[s] /\ n \in Nat \ {0} /\ o \in Item
  BY <1>1, <1>2, AmountsAre, GoodSlot
<1>4. PICK g : /\ Unequip (heap, s, n) = [heap |-> g, item |-> o, count |-> n]
               /\ Removed (heap, g, s, o, n)
               /\ o \in Shared => g.slot[o] = None
  BY <1>2, <1>3, UnequipIs
<1> HIDE DEF o
<1>5. Fits (g, HandOf (o, n), alive, made, InUse)
  BY <1>2, <1>3, <1>4, FitsTakeOut
<1>6. heap' = g /\ hand' = HandOf (o, n)
  BY <1>1, <1>4 DEF HandOf
<1>7. QED
  BY <1>1, <1>5, <1>6, InOrderStill

\* Nobody is told that items are unequipped when they are put elsewhere.
Quiet (h, o, n) ==
  h.slot[o] # None /\ h.slot[o] \in Equipment /\ h.count[h.slot[o]] = n => ~ (o \in Shared /\ o \in Notified)

LEMMA QuietNotify ==
  ASSUME NEW h, NEW o, NEW n, Quiet (h, o, n)
  PROVE  (IF h.slot[o] # None /\ h.slot[o] \in Equipment /\ h.count[h.slot[o]] = n THEN Notify (h, o) ELSE h) = h
BY DEF Quiet, Notify

\* equipment::equip of what is in place of other items.
LEMMA EquipReplaces ==
  ASSUME NEW h, NEW t, NEW o, NEW n, Quiet (h, o, n), h.count[t] > 0, ~ Same (h.held[t], o),
         NEW g, NEW p, NEW c, Unequip (h, t, h.count[t]) = [heap |-> g, item |-> p, count |-> c],
         NEW f, NEW r, AddItems (g, t, o, n) = [heap |-> f, rest |-> r]
  PROVE  EquipItem (h, t, o, n) = [heap |-> Notify (f, o), item |-> p, count |-> c]
<1> DEFINE told == IF h.slot[o] # None /\ h.slot[o] \in Equipment /\ h.count[h.slot[o]] = n THEN Notify (h, o) ELSE h
<1>1. told = h
  BY QuietNotify
<1>2. EquipItem (h, t, o, n) = [heap |-> Notify (AddItems (Unequip (told, t, h.count[t]).heap, t, o, n).heap, o),
                                item |-> Unequip (told, t, h.count[t]).item,
                                count |-> Unequip (told, t, h.count[t]).count]
  BY DEF EquipItem
<1> HIDE DEF told
<1>3. QED
  BY <1>1, <1>2

LEMMA EquipPuts ==
  ASSUME NEW h, NEW t, NEW o, NEW n, Quiet (h, o, n), ~ (h.count[t] > 0 /\ ~ Same (h.held[t], o)),
         NEW f, NEW r, AddItems (h, t, o, n) = [heap |-> f, rest |-> r]
  PROVE  EquipItem (h, t, o, n) =
           [heap |-> IF r < n THEN Notify (f, o) ELSE f, item |-> IF r > 0 THEN o ELSE None, count |-> r]
<1> DEFINE told == IF h.slot[o] # None /\ h.slot[o] \in Equipment /\ h.count[h.slot[o]] = n THEN Notify (h, o) ELSE h
<1>1. told = h
  BY QuietNotify
<1>2. EquipItem (h, t, o, n) = [heap |-> IF AddItems (told, t, o, n).rest < n THEN Notify (AddItems (told, t, o, n).heap, o)
                                         ELSE AddItems (told, t, o, n).heap,
                                item |-> IF AddItems (told, t, o, n).rest > 0 THEN o ELSE None,
                                count |-> AddItems (told, t, o, n).rest]
  BY DEF EquipItem
<1> HIDE DEF told
<1>3. QED
  BY <1>1, <1>2

\* n items o, which are in the hand then, are taken out of t.
TookOut (h, g, t, o, n) ==
  /\ Unequip (h, t, n) = [heap |-> g, item |-> o, count |-> n]
  /\ Removed (h, g, t, o, n)
  /\ o \in Shared => g.slot[o] = None

LEMMA UnequipTakes ==
  ASSUME ItemAssumption, NEW h, Good (h), NEW t \in Slot, NEW o, o \in Item, h.held[t] = o, NEW n, n \in 1 .. h.count[t]
  PROVE  \E g : TookOut (h, g, t, o, n)
<1>1. \E g : /\ Unequip (h, t, n) = [heap |-> g, item |-> o, count |-> n]
             /\ Removed (h, g, t, o, n)
             /\ o \in Shared => g.slot[o] = None
  BY UnequipIs
<1>2. QED
  BY <1>1 DEF TookOut

\* Other items are taken out of t first.
LEMMA FitsReplaced ==
  ASSUME ItemAssumption, InventoriesAssumption, NEW h, NEW al, NEW md, NEW U, Fits (h, Empty, al, md, U),
         NEW t \in Slot, t \in U, h.count[t] > 0, NEW o \in Item, ~ Same (h.held[t], o), NEW n \in Nat \ {0},
         NEW s, s \in Slot \cup {None}, Source (h, o, n, s), n <= MaxStack (o), Quiet (h, o, n),
         NEW p, p = h.held[t], NEW c, c = h.count[t]
  PROVE  \E g, f :
           /\ EquipItem (h, t, o, n) = [heap |-> Notify (f, o), item |-> p, count |-> c]
           /\ p \in Item /\ p # o /\ c \in Nat \ {0}
           /\ Fits (g, HandOf (p, c), al, md, U)
           /\ Came (g, f, U, s, o, n)
<1>1. Good (h)
  BY DEF Fits
<1>2. p \in Item /\ c \in Nat \ {0} /\ c \in 1 .. h.count[t] /\ c \in Nat
  BY <1>1, GoodSlot
<1>3. p # o /\ s # t
  <2>1. p # o
    BY DEF Same
  <2>2. s \in Slot => h.held[s] = o
    BY DEF Source, ItemAssumption
  <2>3. QED
    BY <2>1, <2>2
<1>4. PICK g : /\ Unequip (h, t, c) = [heap |-> g, item |-> p, count |-> c]
               /\ Removed (h, g, t, p, c)
               /\ p \in Shared => g.slot[p] = None
  <2>1. h.held[t] = p
    OBVIOUS
  <2>2. PICK g : TookOut (h, g, t, p, c)
    BY <1>1, <1>2, <2>1, UnequipTakes
  <2>3. QED
    BY <2>2 DEF TookOut
<1>5. Fits (g, HandOf (p, c), al, md, U)
  BY <1>2, <1>4, FitsTakeOut
<1>6. Good (g) /\ EmptyOutside (g, U)
  BY <1>5 DEF Fits
<1>7. g.held[t] = None /\ g.count[t] = 0
  <2>1. Removed (h, g, t, p, h.count[t]) /\ h.held[t] = p
    BY <1>4
  <2>2. QED
    BY <1>1, <1>2, <2>1, RemovedAll
<1>8. Source (g, o, n, s) /\ n \in Nat
  BY <1>1, <1>2, <1>3, <1>4, SourceBeside
<1>9. Takes (g, t, o, n) = n
  <2>1. MaxStack (o) \in Nat
    BY DEF MaxStack, ItemAssumption, Item
  <2>2. Least (MaxStack (o) - g.count[t], n) = n
    BY <1>7, <1>8, <2>1 DEF Least
  <2>3. QED
    BY <1>7, <2>2 DEF Takes
<1>10. PICK f : AddItems (g, t, o, n) = [heap |-> f, rest |-> n - n] /\ Came (g, f, U, s, o, n)
  <2>1. \E f : /\ AddItems (g, t, o, n) = [heap |-> f, rest |-> n - Takes (g, t, o, n)]
               /\ Came (g, f, U, s, o, Takes (g, t, o, n))
    BY <1>6, <1>8, AddCame
  <2>2. QED
    BY <1>9, <2>1
<1>11. EquipItem (h, t, o, n) = [heap |-> Notify (f, o), item |-> p, count |-> c]
  BY <1>4, <1>10, EquipReplaces
<1>12. QED
  BY <1>2, <1>3, <1>5, <1>10, <1>11

LEMMA NothingInHand ==
  [item |-> None, count |-> 0] = Empty
BY DEF Empty

LEMMA EquipHandStep ==
  ASSUME ItemAssumption, InventoriesAssumption, Careful, IInv, NEW t \in InUse, EquipHand (t)
  PROVE  IInv'
<1> DEFINE o == hand.item
           n == hand.count
           e == EquipItem (heap, t, o, n)
           own == {o} \cap Mutable
           k == KindOf[o]
<1>1. /\ Fits (heap, hand, alive, made, InUse) /\ Good (heap) /\ EmptyOutside (heap, InUse)
      /\ Held (heap, hand, alive) /\ t \in Slot /\ t \in InUse /\ made \in [Kinds -> Nat]
  BY InOrder
<1>2. o \in Item /\ n \in Nat \ {0} /\ hand = HandOf (o, n) /\ n \in Nat
  BY <1>1, HandHeld DEF EquipHand
<1>3. (o \in Mutable => n = 1) /\ n <= MaxStack (o)
  <2>1. o \in Mutable => n = 1
    BY DEF EquipHand, SmallEnough, Careful
  <2>2. MaxStack (o) \in Nat
    BY <1>2 DEF MaxStack, ItemAssumption, Item
  <2>3. ~ (n > MaxStack (o))
    BY DEF EquipHand, Careful
  <2> HIDE DEF n
  <2>4. n <= MaxStack (o)
    BY <1>2, <2>2, <2>3
  <2>5. QED
    BY <2>1, <2>4
<1>4. /\ heap' = e.heap
      /\ hand' = [item |-> e.item, count |-> e.count]
      /\ alive' = alive /\ made' = made /\ slots' = slots /\ hung' = hung
  BY DEF EquipHand
<1> HIDE DEF o, n, e, k
<1>5. Source (heap, o, n, None) /\ None \in Slot \cup {None} /\ (o \in Mutable => Free (heap) \cap alive = {o})
  BY <1>1, <1>2, <1>3, HandSource
<1>6. Quiet (heap, o, n)
  BY <1>5 DEF Source, Quiet
<1>7. CASE heap.count[t] > 0 /\ ~ Same (heap.held[t], o)
  <2> DEFINE al == alive \ own
             md == Fewer (made, k, n)
             p == heap.held[t]
             c == heap.count[t]
  <2>1. Fits (heap, Empty, al, md, InUse)
    BY <1>1, <1>2, <1>3, FitsAside DEF k
  <2>2. own \cap al = {} /\ al \cup own = alive
    BY <1>5
  <2> HIDE DEF al, md
  <2> DEFINE src == None
  <2>3. src \in Slot \cup {None} /\ Source (heap, o, n, src)
    BY <1>5
  <2> HIDE DEF src
  <2>4. PICK g, f :
           /\ EquipItem (heap, t, o, n) = [heap |-> Notify (f, o), item |-> p, count |-> c]
           /\ p \in Item /\ p # o /\ c \in Nat \ {0}
           /\ Fits (g, HandOf (p, c), al, md, InUse)
           /\ Came (g, f, InUse, src, o, n)
    BY <1>1, <1>2, <1>3, <1>6, <1>7, <2>1, <2>3, FitsReplaced
  <2>5. Came (g, f, InUse, None, o, n)
    BY <2>4 DEF src
  <2> HIDE DEF own
  <2>6. Fits (f, HandOf (p, c), al \cup own, More (md, KindOf[o], n), InUse)
    <3>1. own = {o} \cap Mutable
      BY DEF own
    <3>2. QED
      BY <1>2, <1>3, <2>2, <2>4, <2>5, <3>1, FitsArrive
  <2>7. More (md, KindOf[o], n) = made
    <3> DEFINE m0 == n - n
    <3>1. More (More (Fewer (made, k, n), k, n), k, n - n) = made /\ n - n = 0
      BY <1>1, <1>2, MoreFewer
    <3>2. More (md, KindOf[o], n) \in [Kinds -> Nat]
      BY <2>6 DEF Fits, Numbers
    <3> DEFINE nd == More (md, k, n)
    <3>3. More (nd, k, 0) = made /\ nd \in [Kinds -> Nat]
      BY <3>1, <3>2 DEF md, k
    <3> HIDE DEF nd
    <3>4. nd = made
      BY <3>3, MoreNothing
    <3>5. QED
      BY <3>4 DEF nd, k
  <2>8. Fits (f, HandOf (p, c), alive, made, InUse)
    BY <2>2, <2>6, <2>7
  <2>9. Fits (Notify (f, o), HandOf (p, c), alive, made, InUse)
    BY <2>8, FitsNotify
  <2>10. heap' = Notify (f, o) /\ hand' = HandOf (p, c)
    BY <1>4, <2>4 DEF e, HandOf
  <2>11. QED
    BY <1>4, <2>9, <2>10, InOrderStill
<1>8. CASE ~ (heap.count[t] > 0 /\ ~ Same (heap.held[t], o))
  <2> DEFINE q == Takes (heap, t, o, n)
  <2>1. PICK f : AddItems (heap, t, o, n) = [heap |-> f, rest |-> n - q] /\ q \in 0 .. n /\ Came (heap, f, InUse, None, o, q)
    BY <1>1, <1>2, <1>5, AddCame
  <2> HIDE DEF q
  <2> DEFINE r == n - q
  <2>2. AddItems (heap, t, o, n) = [heap |-> f, rest |-> r]
    BY <2>1
  <2>3. Fits (f, HandAfter (o, r), alive, made, InUse)
    BY <1>1, <1>2, <1>3, <2>1, FitsFromHand
  <2>4. r \in Nat
    BY <1>2, <2>1
  <2> HIDE DEF r
  <2>5. e = [heap |-> IF r < n THEN Notify (f, o) ELSE f, item |-> IF r > 0 THEN o ELSE None, count |-> r]
    BY <1>6, <1>8, <2>2, EquipPuts DEF e
  <2>6. hand' = HandAfter (o, r)
    <3>1. CASE r = 0
      BY <1>4, <2>5, <3>1 DEF HandAfter, Empty
    <3>2. CASE r # 0
      BY <1>4, <2>4, <2>5, <3>2 DEF HandAfter
    <3>3. QED
      BY <3>1, <3>2
  <2>7. Fits (heap', hand', alive, made, InUse)
    <3>1. heap' = Notify (f, o) \/ heap' = f
      BY <1>4, <2>5
    <3>2. QED
      BY <2>3, <2>6, <3>1, FitsNotify
  <2>8. QED
    BY <1>4, <2>7, InOrderStill
<1>9. QED
  BY <1>7, <1>8

LEMMA EquipFromStep ==
  ASSUME ItemAssumption, InventoriesAssumption, Careful, IInv, NEW s \in InUse, NEW n \in Amounts (s), NEW t \in InUse,
         EquipFrom (s, t, n)
  PROVE  IInv'
<1> DEFINE h == GetItem (heap, s)
           o == heap.held[s]
           e == EquipItem (h, t, o, n)
<1>1. /\ heap.held[s] # None /\ h = GetItem (heap, s) /\ hand = Empty
      /\ s \in Equipment /\ o \in Shared \cap Notified => Swaps
      /\ heap' = e.heap
      /\ hand' = IF e.item = o THEN Empty ELSE [item |-> e.item, count |-> e.count]
      /\ slots' = slots /\ alive' = alive /\ made' = made /\ hung' = hung
  BY DEF EquipFrom
<1>2. Good (heap) /\ t \in Slot /\ t \in InUse /\ s \in Slot
  BY InOrder
<1>3. n \in 1 .. heap.count[s] /\ n \in Nat \ {0} /\ n \in Nat
  BY <1>2, AmountsAre, GoodSlot
<1> HIDE DEF h, e
<1>4. /\ Fits (h, Empty, alive, made, InUse) /\ Good (h) /\ EmptyOutside (h, InUse)
      /\ o \in Item /\ h.held[s] = o /\ h.held = heap.held /\ h.count = heap.count /\ h.slot[o] = s
  <2>1. MayLook (s)
    <3>1. None \notin Shared /\ hand.item = None
      BY <1>1 DEF ItemAssumption, Empty
    <3>2. QED
      BY <3>1 DEF MayLook
  <2>2. QED
    BY <1>1, <2>1, LookUp
<1> HIDE DEF o
<1>5. Source (h, o, n, s) /\ s \in Slot \cup {None}
  <2>1. n <= h.count[s]
    BY <1>2, <1>3, <1>4, GoodSlot
  <2>2. Source (h, o, n, s)
    BY <1>2, <1>4, <2>1, SlotSource
  <2>3. QED
    BY <1>2, <2>2
<1>6. Quiet (h, o, n)
  BY <1>1, <1>4 DEF Quiet, Careful
<1>7. CASE h.count[t] > 0 /\ ~ Same (h.held[t], o)
  <2> DEFINE p == h.held[t]
             c == h.count[t]
  <2>1. n <= MaxStack (o)
    <3>1. h.count[s] \in Nat /\ h.count[s] <= MaxStack (o) /\ n <= h.count[s]
      BY <1>2, <1>3, <1>4, GoodSlot DEF ItemAssumption, Item
    <3>2. MaxStack (o) \in Nat
      BY <1>4 DEF MaxStack, ItemAssumption, Item
    <3>3. QED
      BY <1>3, <3>1, <3>2
  <2>2. PICK g, f :
           /\ EquipItem (h, t, o, n) = [heap |-> Notify (f, o), item |-> p, count |-> c]
           /\ p \in Item /\ p # o /\ c \in Nat \ {0}
           /\ Fits (g, HandOf (p, c), alive, made, InUse)
           /\ Came (g, f, InUse, s, o, n)
    BY <1>2, <1>3, <1>4, <1>5, <1>6, <1>7, <2>1, FitsReplaced
  <2> HIDE DEF p, c
  <2>3. Fits (f, HandOf (p, c), alive, made, InUse)
    BY <1>2, <2>2, FitsFromSlot
  <2>4. Fits (Notify (f, o), HandOf (p, c), alive, made, InUse)
    BY <2>3, FitsNotify
  <2>5. heap' = Notify (f, o) /\ hand' = HandOf (p, c)
    BY <1>1, <2>2 DEF e, HandOf
  <2>6. QED
    BY <1>1, <2>4, <2>5, InOrderStill
<1>8. CASE ~ (h.count[t] > 0 /\ ~ Same (h.held[t], o))
  <2> DEFINE q == Takes (h, t, o, n)
  <2>1. PICK f : AddItems (h, t, o, n) = [heap |-> f, rest |-> n - q] /\ q \in 0 .. n /\ Came (h, f, InUse, s, o, q)
    BY <1>2, <1>3, <1>4, <1>5, AddCame
  <2> HIDE DEF q
  <2> DEFINE r == n - q
  <2>2. AddItems (h, t, o, n) = [heap |-> f, rest |-> r]
    BY <2>1
  <2>3. Fits (f, Empty, alive, made, InUse)
    BY <1>2, <1>4, <2>1, FitsFromSlot
  <2>4. r \in Nat
    BY <1>3, <2>1
  <2> HIDE DEF r
  <2>5. e = [heap |-> IF r < n THEN Notify (f, o) ELSE f, item |-> IF r > 0 THEN o ELSE None, count |-> r]
    BY <1>6, <1>8, <2>2, EquipPuts DEF e
  <2>6. hand' = Empty
    <3>1. CASE r = 0
      BY <1>1, <2>5, <3>1 DEF Empty
    <3>2. CASE r # 0
      BY <1>1, <2>4, <2>5, <3>2
    <3>3. QED
      BY <3>1, <3>2
  <2>7. Fits (heap', hand', alive, made, InUse)
    <3>1. heap' = Notify (f, o) \/ heap' = f
      BY <1>1, <2>5
    <3>2. QED
      BY <2>3, <2>6, <3>1, FitsNotify
  <2>8. QED
    BY <1>1, <2>7, InOrderStill
<1>9. QED
  BY <1>7, <1>8

\* What exists and is in no slot is in the hand.
LEMMA FreeInHand ==
  ASSUME ItemAssumption, NEW h, Good (h), NEW hd, NEW al, Held (h, hd, al), NEW o \in Mutable, o \in al, h.slot[o] = None
  PROVE  o \in Stack (h, hd.item)
<1>1. o \in Free (h) \cap al
  BY DEF Free
<1>2. PICK c : /\ hd \in [item : Mutable, count : Nat \ {0}]
               /\ Loose (h, c, hd.count) /\ c[1] = hd.item /\ Free (h) \cap al = Elements (c, hd.count)
  BY <1>1 DEF Held
<1> DEFINE n == hd.count
<1>3. n \in Nat \ {0} /\ h.next \in [Mutable -> Mutable \cup {None}] /\ Chain (h, c, n)
  BY <1>2, HeapIs DEF Good, Loose
<1> HIDE DEF n
<1>4. Stack (h, c[1]) = Elements (c, n)
  BY <1>3, ChainStack
<1>5. QED
  BY <1>1, <1>2, <1>4 DEF n

LEMMA DestroyStep ==
  ASSUME ItemAssumption, InventoriesAssumption, IInv, NEW o \in Mutable, Destroy (o)
  PROVE  IInv'
<1> DEFINE k == KindOf[o]
           dead == {o} \cap Mutable
           d == Destroyed (heap, o)
<1>1. /\ o \in alive /\ o \notin Stack (heap, hand.item)
      /\ heap' = d.heap /\ alive' = alive \ d.dead /\ made' = [made EXCEPT ![k] = @ - 1]
      /\ slots' = slots /\ hand' = hand /\ hung' = hung
  BY DEF Destroy
<1>2. /\ Fits (heap, hand, alive, made, InUse) /\ Good (heap) /\ Held (heap, hand, alive) /\ made \in [Kinds -> Nat]
      /\ heap.slot \in [Item -> Slot \cup {None}]
  BY InOrder, HeapIs DEF Good
<1>3. o \in Item /\ o \notin Shared
  BY DEF Item, ItemAssumption
<1> DEFINE s == heap.slot[o]
<1>4. s \in Slot
  BY <1>1, <1>2, <1>3, FreeInHand
<1> HIDE DEF d, s
<1>5. heap.slot[o] = s
  BY DEF s
<1>6. PICK g : /\ d = [heap |-> g, dead |-> dead]
               /\ Removed (heap, g, s, o, 1) /\ Frame (heap, g)
               /\ (o \in Mutable => g.next[o] = None)
               /\ Free (g) = Free (heap) \cup dead
  BY <1>2, <1>3, <1>4, <1>5, DestroyedIs DEF d
<1>7. dead = {o} \cap Mutable
  OBVIOUS
<1> HIDE DEF dead
<1>8. Fits (g, hand, alive \ dead, Fewer (made, KindOf[o], 1), InUse)
  BY <1>2, <1>3, <1>4, <1>5, <1>6, <1>7, FitsGone
<1> HIDE DEF k
<1>9. made' = Fewer (made, k, 1)
  BY <1>1, <1>2, MadeFewer
<1>10. Fits (heap', hand', alive', made', InUse)
  BY <1>1, <1>6, <1>8, <1>9 DEF k
<1>11. QED
  BY <1>1, <1>10, InOrderStill

LEMMA DestroySharedStep ==
  ASSUME ItemAssumption, InventoriesAssumption, Careful, IInv, NEW s \in InUse, DestroyShared (s)
  PROVE  IInv'
<1> DEFINE o == heap.held[s]
           h == GetItem (heap, s)
           dead == {o} \cap Mutable
           d == Destroyed (h, o)
<1>1. /\ o \in Shared /\ MayLook (s) /\ heap' = d.heap /\ made' = [made EXCEPT ![o] = @ - 1]
      /\ slots' = slots /\ hand' = hand /\ hung' = hung /\ alive' = alive
  BY DEF DestroyShared
<1>2. o # None /\ o \notin Mutable /\ KindOf[o] = o /\ h = GetItem (heap, s)
  BY <1>1 DEF ItemAssumption
<1> HIDE DEF h
<1>3. /\ Fits (h, hand, alive, made, InUse) /\ Good (h) /\ s \in Slot /\ o \in Item
      /\ h.held = heap.held /\ h.slot[o] = s
  BY <1>1, <1>2, LookUp
<1>4. h.held[s] = o /\ made \in [Kinds -> Nat]
  BY <1>3, InOrder
<1> HIDE DEF o, d
<1>5. PICK g : /\ d = [heap |-> g, dead |-> dead]
               /\ Removed (h, g, s, o, 1) /\ Frame (h, g)
               /\ (o \in Mutable => g.next[o] = None)
               /\ Free (g) = Free (h) \cup dead
  BY <1>3, <1>4, DestroyedIs DEF d
<1>6. dead = {o} \cap Mutable /\ dead = {}
  BY <1>2
<1> HIDE DEF dead
<1>7. Fits (g, hand, alive \ dead, Fewer (made, KindOf[o], 1), InUse)
  BY <1>3, <1>5, <1>6, FitsGone
<1>8. made' = Fewer (made, o, 1)
  BY <1>1, <1>4, MadeFewer
<1>9. alive \ dead = alive
  BY <1>6
<1>10. Fits (heap', hand', alive', made', InUse)
  BY <1>1, <1>2, <1>5, <1>7, <1>8, <1>9
<1>11. QED
  BY <1>1, <1>10, InOrderStill

-----------------------------------------------------------------------------
(* Clearing slots. *)

\* What is stacked in a slot are the mutable items that say they are there.
LEMMA SlotStack ==
  ASSUME ItemAssumption, NEW h, Good (h), NEW s \in Slot, h.held[s] \in Mutable
  PROVE  Stack (h, h.held[s]) = {p \in Mutable : h.slot[p] = s}
<1>1. PICK c : Filed (h, c, s)
  BY DEF Good
<1> DEFINE n == h.count[s]
<1>2. /\ h \in HeapType /\ n \in Nat \ {0} /\ Chain (h, c, n) /\ h.held[s] = c[1]
      /\ \A i \in 1 .. n : c[i] \in Mutable /\ h.slot[c[i]] = s
      /\ \A p \in Mutable : h.slot[p] = s => \E i \in 1 .. n : c[i] = p
  BY <1>1, FiledItems
<1>3. h.next \in [Mutable -> Mutable \cup {None}]
  BY <1>2, HeapIs
<1> HIDE DEF n
<1>4. Stack (h, h.held[s]) = Elements (c, n)
  BY <1>2, <1>3, ChainStack
<1>5. Elements (c, n) = {p \in Mutable : h.slot[p] = s}
  BY <1>2 DEF Elements
<1>6. QED
  BY <1>4, <1>5

LEMMA DeletedIs ==
  ASSUME ItemAssumption, NEW h, Good (h), NEW S \in SUBSET Slot, NEW p
  PROVE  p \in Deleted (h, S) <=> p \in Mutable /\ h.slot[p] \in S
<1>1. ASSUME p \in Deleted (h, S)
      PROVE  p \in Mutable /\ h.slot[p] \in S
  <2>1. PICK s \in S : h.held[s] \in Mutable /\ p \in Stack (h, h.held[s])
    BY <1>1 DEF Deleted
  <2>2. Stack (h, h.held[s]) = {q \in Mutable : h.slot[q] = s}
    BY <2>1, SlotStack
  <2>3. QED
    BY <2>1, <2>2
<1>2. ASSUME p \in Mutable, h.slot[p] \in S
      PROVE  p \in Deleted (h, S)
  <2> DEFINE s == h.slot[p]
  <2>1. s \in S /\ s \in Slot /\ h.slot[p] = s
    BY <1>2
  <2> HIDE DEF s
  <2>2. h.held[s] \in Mutable
    BY <1>2, <2>1, GoodSlot
  <2>3. Stack (h, h.held[s]) = {q \in Mutable : h.slot[q] = s}
    BY <2>1, <2>2, SlotStack
  <2>4. p \in Stack (h, h.held[s])
    BY <1>2, <2>1, <2>3
  <2>5. QED
    BY <2>1, <2>2, <2>4 DEF Deleted
<1>3. QED
  BY <1>1, <1>2

\* What slots count together.
LEMMA CountedApart ==
  ASSUME ItemAssumption, InventoriesAssumption, NEW h \in HeapType, NEW S \in SUBSET Slot, NEW T \in SUBSET Slot,
         S \cap T = {}, NEW k
  PROVE  Counted (h, S \cup T, k) = Counted (h, S, k) + Counted (h, T, k)
<1> DEFINE A == Places (h, S, k)
           B == Places (h, T, k)
           C == Places (h, S \cup T, k)
<1>1. A = {x \in S \X Nat : x[2] \in 1 .. Amount (h, x[1], k)}
  BY PlacesAre
<1>2. B = {x \in T \X Nat : x[2] \in 1 .. Amount (h, x[1], k)}
  BY PlacesAre
<1>3. C = {x \in (S \cup T) \X Nat : x[2] \in 1 .. Amount (h, x[1], k)}
  <2>1. S \cup T \in SUBSET Slot
    OBVIOUS
  <2>2. QED
    BY <2>1, PlacesAre
<1>4. IsFiniteSet (A) /\ IsFiniteSet (B)
  BY PlacesFinite
<1>5. Counted (h, S, k) = Cardinality (A) /\ Counted (h, T, k) = Cardinality (B) /\ Counted (h, S \cup T, k) = Cardinality (C)
  BY DEF Counted
<1>6. Cardinality (A) \in Nat /\ Cardinality (B) \in Nat
  BY <1>4, FS_CardinalityType
<1> HIDE DEF A, B, C
<1>7. C = A \cup B
  BY <1>1, <1>2, <1>3
<1>8. A \cap B = {}
  <2>1. \A x \in S \X Nat : x[1] \in S
    OBVIOUS
  <2>2. \A x \in T \X Nat : x[1] \in T
    OBVIOUS
  <2>3. QED
    BY <1>1, <1>2, <2>1, <2>2
<1>9. Cardinality (A \cup B) = Cardinality (A) + Cardinality (B) - Cardinality (A \cap B)
  BY <1>4, FS_Union
<1>10. Cardinality (A \cap B) = 0
  BY <1>8, FS_EmptySet
<1>11. QED
  BY <1>5, <1>6, <1>7, <1>9, <1>10

\* h without what is in the slots of S, all of which is in dead.
Emptied (h, S, dead) ==
  Heap ([s \in Slot |-> IF s \in S THEN None ELSE h.held[s]],
        [s \in Slot |-> IF s \in S THEN 0 ELSE h.count[s]],
        [p \in Mutable |-> IF p \in dead THEN None ELSE h.next[p]],
        [p \in Item |-> IF p \in dead THEN None ELSE h.slot[p]])

LEMMA EmptiedIs ==
  ASSUME NEW h \in HeapType, NEW S
  PROVE  Forgotten (Cleared (h, S), Deleted (h, S)) = Emptied (h, S, Deleted (h, S))
<1> DEFINE dead == Deleted (h, S)
           h1 == Cleared (h, S)
<1>1. h = Heap (h.held, h.count, h.next, h.slot)
  BY HeapIs
<1> HIDE DEF dead
<1>2. h1 = Heap ([s \in Slot |-> IF s \in S THEN None ELSE h.held[s]],
                 [s \in Slot |-> IF s \in S THEN 0 ELSE h.count[s]],
                 h.next,
                 [p \in Item |-> IF p \in dead THEN None ELSE h.slot[p]])
  <2> DEFINE f1 == [s \in Slot |-> IF s \in S THEN None ELSE h.held[s]]
             f2 == [s \in Slot |-> IF s \in S THEN 0 ELSE h.count[s]]
             f3 == [p \in Item |-> IF p \in dead THEN None ELSE h.slot[p]]
  <2>1. h1 = [h EXCEPT !.held = f1, !.count = f2, !.slot = f3]
    BY DEF Cleared, dead
  <2> HIDE DEF f1, f2, f3, h1
  <2>2. h1 = Heap (f1, f2, h.next, f3)
    BY <1>1, <2>1 DEF Heap
  <2>3. QED
    BY <2>2 DEF f1, f2, f3
<1> HIDE DEF h1
<1>3. Forgotten (h1, dead) = Emptied (h, S, dead)
  BY <1>2 DEF Forgotten, Emptied, Heap
<1>4. QED
  BY <1>3 DEF h1, dead

LEMMA EmptiedGood ==
  ASSUME ItemAssumption, NEW h, Good (h), NEW S \in SUBSET Slot, NEW dead, dead = Deleted (h, S),
         NEW g, g = Emptied (h, S, dead)
  PROVE  /\ Good (g) /\ Frame (h, g)
         /\ Free (g) = Free (h) \cup dead /\ dead \subseteq Mutable
         /\ \A p \in dead : g.next[p] = None
         /\ \A u \in Slot : g.held[u] = (IF u \in S THEN None ELSE h.held[u])
         /\ \A u \in Slot : g.count[u] = (IF u \in S THEN 0 ELSE h.count[u])
<1>1. /\ h \in HeapType
      /\ h.held \in [Slot -> Item \cup {None}] /\ h.count \in [Slot -> Nat]
      /\ h.next \in [Mutable -> Mutable \cup {None}] /\ h.slot \in [Item -> Slot \cup {None}]
  BY HeapIs DEF Good
<1>2. \A p : p \in dead <=> p \in Mutable /\ h.slot[p] \in S
  BY DeletedIs
<1>3. Mutable \cap Shared = {} /\ None \notin Slot /\ Mutable \subseteq Item /\ Shared \subseteq Item
  BY DEF ItemAssumption, Item
<1> DEFINE held == [s \in Slot |-> IF s \in S THEN None ELSE h.held[s]]
           count == [s \in Slot |-> IF s \in S THEN 0 ELSE h.count[s]]
           next == [p \in Mutable |-> IF p \in dead THEN None ELSE h.next[p]]
           slot == [p \in Item |-> IF p \in dead THEN None ELSE h.slot[p]]
<1>4. g.held = held /\ g.count = count /\ g.next = next /\ g.slot = slot /\ g = Heap (held, count, next, slot)
  BY DEF Emptied, Heap
<1>5. g \in HeapType
  <2>1. held \in [Slot -> Item \cup {None}]
    BY <1>1
  <2>2. count \in [Slot -> Nat]
    BY <1>1
  <2>3. next \in [Mutable -> Mutable \cup {None}]
    BY <1>1
  <2>4. slot \in [Item -> Slot \cup {None}]
    BY <1>1
  <2> HIDE DEF held, count, next, slot
  <2>5. QED
    BY <1>4, <2>1, <2>2, <2>3, <2>4, HeapMade
<1>6. \A u \in Slot : g.held[u] = IF u \in S THEN None ELSE h.held[u]
  BY <1>4
<1>7. \A u \in Slot : g.count[u] = IF u \in S THEN 0 ELSE h.count[u]
  BY <1>4
<1>8. \A p \in Mutable : g.next[p] = IF p \in dead THEN None ELSE h.next[p]
  BY <1>4
<1>9. \A p \in Item : g.slot[p] = IF p \in dead THEN None ELSE h.slot[p]
  BY <1>4
<1> HIDE DEF held, count, next, slot
<1>10. ASSUME NEW u \in Slot PROVE \E c : Filed (g, c, u)
  <2>1. CASE u \in S
    <3>1. g.held[u] = None /\ g.count[u] = 0 /\ None \notin Mutable
      BY <1>6, <1>7, <2>1 DEF ItemAssumption
    <3>2. \A p \in Mutable : g.slot[p] # u
      BY <1>2, <1>3, <1>9, <2>1
    <3>3. Filed (g, <<>>, u)
      BY <3>1, <3>2, SharedFiled
    <3>4. QED
      BY <3>3
  <2>2. CASE u \notin S
    <3>1. PICK c : Filed (h, c, u)
      BY DEF Good
    <3>2. g.held[u] = h.held[u] /\ g.count[u] = h.count[u]
      BY <1>6, <1>7, <2>2
    <3>3. ASSUME NEW p \in Mutable
          PROVE  (h.slot[p] = u => g.next[p] = h.next[p]) /\ (g.slot[p] = u <=> h.slot[p] = u)
      BY <1>2, <1>3, <1>8, <1>9, <2>2
    <3>4. Filed (g, c, u)
      BY <1>1, <3>1, <3>2, <3>3, FiledFrame
    <3>5. QED
      BY <3>4
  <2>3. QED
    BY <2>1, <2>2
<1>11. Good (g)
  BY <1>5, <1>10 DEF Good
<1>12. Free (g) = Free (h) \cup dead
  BY <1>2, <1>3, <1>9 DEF Free
<1>13. Frame (h, g)
  <2>1. \A p \in Free (h) \cap Free (g) : g.next[p] = h.next[p]
    BY <1>2, <1>3, <1>8 DEF Free
  <2>2. \A k \in Shared : g.slot[k] = h.slot[k]
    BY <1>2, <1>3, <1>9
  <2>3. QED
    BY <2>1, <2>2 DEF Frame
<1>14. QED
  BY <1>2, <1>6, <1>7, <1>8, <1>11, <1>12, <1>13

\* There are fewer items by those that the slots of S count.
LessThose (md, h, S) == [k \in Kinds |-> md[k] - Counted (h, S, k)]

LEMMA EmptiedCounted ==
  ASSUME ItemAssumption, InventoriesAssumption, NEW h \in HeapType, NEW g \in HeapType, NEW S \in SUBSET Slot, NEW k,
         \A u \in Slot : g.held[u] = (IF u \in S THEN None ELSE h.held[u]),
         \A u \in Slot : g.count[u] = (IF u \in S THEN 0 ELSE h.count[u])
  PROVE  /\ Counted (g, Slot, k) = Counted (h, Slot, k) - Counted (h, S, k)
         /\ Counted (g, Slot, k) \in Nat /\ Counted (h, Slot, k) \in Nat /\ Counted (h, S, k) \in Nat
<1> DEFINE T == Slot \ S
<1>1. T \in SUBSET Slot /\ S \cap T = {} /\ S \cup T = Slot /\ Slot \in SUBSET Slot
  OBVIOUS
<1> HIDE DEF T
<1>2. Counted (h, S \cup T, k) = Counted (h, S, k) + Counted (h, T, k)
  BY <1>1, CountedApart
<1>3. Counted (g, S \cup T, k) = Counted (g, S, k) + Counted (g, T, k)
  BY <1>1, CountedApart
<1>4. Counted (g, T, k) = Counted (h, T, k)
  <2>1. \A s \in T : Amount (g, s, k) = Amount (h, s, k)
    BY DEF Amount, T
  <2>2. QED
    BY <1>1, <2>1, CountedSame
<1>5. Counted (g, S, k) = 0
  <2>1. Places (g, S, k) = {x \in S \X Nat : x[2] \in 1 .. Amount (g, x[1], k)}
    BY PlacesAre
  <2>2. \A s \in S : Amount (g, s, k) = 0
    BY DEF Amount
  <2>3. Places (g, S, k) = {}
    BY <2>1, <2>2
  <2>4. QED
    BY <2>3, FS_EmptySet DEF Counted
<1>6. Counted (h, S, k) \in Nat /\ Counted (h, T, k) \in Nat /\ Counted (h, Slot, k) \in Nat /\ Counted (g, Slot, k) \in Nat
  BY <1>1, CountedType
<1>7. Counted (h, Slot, k) = Counted (h, S, k) + Counted (h, T, k)
  BY <1>1, <1>2
<1>8. Counted (g, Slot, k) = Counted (h, T, k)
  <2>1. Counted (g, Slot, k) = Counted (g, S, k) + Counted (g, T, k)
    BY <1>1, <1>3
  <2>2. Counted (g, Slot, k) = 0 + Counted (h, T, k)
    BY <1>4, <1>5, <2>1
  <2>3. QED
    BY <1>6, <2>2
<1>9. QED
  BY <1>6, <1>7, <1>8

LEMMA NumbersEmptied ==
  ASSUME ItemAssumption, InventoriesAssumption, NEW h \in HeapType, NEW g \in HeapType, NEW S \in SUBSET Slot,
         \A u \in Slot : g.held[u] = (IF u \in S THEN None ELSE h.held[u]),
         \A u \in Slot : g.count[u] = (IF u \in S THEN 0 ELSE h.count[u]),
         NEW hd, NEW md, Numbers (h, hd, md), \A k \in Kinds : InHand (hd, k) \in Nat
  PROVE  Numbers (g, hd, LessThose (md, h, S))
<1> DEFINE w == LessThose (md, h, S)
<1>1. \A k \in Kinds : w[k] = md[k] - Counted (h, S, k)
  BY DEF LessThose
<1>2. w = [k \in Kinds |-> w[k]]
  BY DEF LessThose
<1> HIDE DEF w
<1>3. ASSUME NEW k \in Kinds
      PROVE  w[k] = Counted (g, Slot, k) + InHand (hd, k) /\ w[k] \in Nat
  <2>1. /\ Counted (g, Slot, k) = Counted (h, Slot, k) - Counted (h, S, k)
        /\ Counted (g, Slot, k) \in Nat /\ Counted (h, Slot, k) \in Nat /\ Counted (h, S, k) \in Nat
    BY EmptiedCounted
  <2>2. md[k] = Counted (h, Slot, k) + InHand (hd, k) /\ InHand (hd, k) \in Nat
    BY DEF Numbers
  <2>3. w[k] = md[k] - Counted (h, S, k)
    BY <1>1
  <2>4. QED
    BY <2>1, <2>2, <2>3
<1>4. w \in [Kinds -> Nat]
  BY <1>2, <1>3
<1>5. Numbers (g, hd, w)
  BY <1>3, <1>4 DEF Numbers
<1>6. QED
  BY <1>5 DEF w

LEMMA FitsEmptied ==
  ASSUME ItemAssumption, InventoriesAssumption, NEW h, NEW hd, NEW al, NEW md, NEW U, Fits (h, hd, al, md, U),
         NEW S \in SUBSET Slot, NEW V, EmptyOutside (h, V \cup S),
         NEW dead, dead = Deleted (h, S), NEW g, g = Emptied (h, S, dead)
  PROVE  Fits (g, hd, al \ dead, LessThose (md, h, S), V)
<1>1. Good (h) /\ EmptyOutside (h, U) /\ Living (h, al) /\ Held (h, hd, al) /\ Numbers (h, hd, md)
  BY DEF Fits
<1>2. /\ Good (g) /\ Frame (h, g)
      /\ Free (g) = Free (h) \cup dead /\ dead \subseteq Mutable
      /\ \A p \in dead : g.next[p] = None
      /\ \A u \in Slot : g.held[u] = (IF u \in S THEN None ELSE h.held[u])
      /\ \A u \in Slot : g.count[u] = (IF u \in S THEN 0 ELSE h.count[u])
  BY <1>1, EmptiedGood
<1>3. h \in HeapType /\ g \in HeapType
  BY <1>1, <1>2 DEF Good
<1>4. EmptyOutside (g, V)
  BY <1>2 DEF EmptyOutside
<1>5. \A k \in Kinds : InHand (hd, k) \in Nat
  BY <1>1, HandNatural
<1>6. Numbers (g, hd, LessThose (md, h, S))
  BY <1>1, <1>2, <1>3, <1>5, NumbersEmptied
<1>7. dead \cap Free (h) = {} /\ al \subseteq Mutable
  <2>1. \A p : p \in dead <=> p \in Mutable /\ h.slot[p] \in S
    BY <1>1, DeletedIs
  <2>2. QED
    BY <1>1, <2>1 DEF Free, Living, ItemAssumption
<1> HIDE DEF LessThose
<1>8. Free (g) \cap (al \ dead) = Free (h) \cap al /\ al \ dead \subseteq Mutable
  BY <1>2, <1>7
<1>9. LeftOut (g, al, al \ dead)
  <2>1. SUFFICES ASSUME NEW p \in Mutable, p \notin al \ dead PROVE p \in Free (g) /\ (p \in al => g.next[p] = None)
    BY DEF LeftOut
  <2>2. CASE p \in dead
    BY <1>2, <2>2
  <2>3. CASE p \notin dead
    BY <1>1, <1>2, <2>1, <2>3 DEF Living, Free
  <2>4. QED
    BY <2>2, <2>3
<1>10. QED
  BY <1>2, <1>4, <1>6, <1>8, <1>9, FitsOn

LEMMA ClearStep ==
  ASSUME ItemAssumption, InventoriesAssumption, IInv, NEW s \in InUse, Clear (s)
  PROVE  IInv'
<1> DEFINE S == {s}
           dead == Deleted (heap, S)
           g == Emptied (heap, S, dead)
<1>1. /\ Fits (heap, hand, alive, made, InUse) /\ heap \in HeapType /\ EmptyOutside (heap, InUse)
      /\ S \in SUBSET Slot
  BY InOrder DEF Good
<1>2. ClearAll (S) /\ slots' = slots /\ hand' = hand /\ hung' = hung
  BY DEF Clear
<1> HIDE DEF S
<1>3. heap' = g /\ alive' = alive \ dead /\ made' = LessThose (made, heap, S)
  BY <1>1, <1>2, EmptiedIs DEF ClearAll, LessThose
<1>4. EmptyOutside (heap, InUse \cup S)
  BY <1>1, OutsideLess
<1>5. dead = Deleted (heap, S) /\ g = Emptied (heap, S, dead)
  OBVIOUS
<1> HIDE DEF dead, g
<1>6. Fits (g, hand, alive \ dead, LessThose (made, heap, S), InUse)
  BY <1>1, <1>4, <1>5, FitsEmptied
<1>7. QED
  BY <1>2, <1>3, <1>6, InOrderStill

LEMMA DeleteInventoryStep ==
  ASSUME ItemAssumption, InventoriesAssumption, IInv, NEW i \in Inventory, DeleteInventory (i)
  PROVE  IInv'
<1> DEFINE S == SlotsOf (i)
           dead == Deleted (heap, S)
           g == Emptied (heap, S, dead)
<1>1. /\ Fits (heap, hand, alive, made, InUse) /\ heap \in HeapType /\ EmptyOutside (heap, InUse)
      /\ slots \in [Inventory -> Seq (Slot \ {Tmp})] /\ hung = FALSE
  BY InOrder DEF Good
<1>2. S \in SUBSET Slot
  BY <1>1, UseIs
<1>3. ClearAll (S) /\ slots' = [slots EXCEPT ![i] = InitSlots[i]] /\ hand' = hand /\ hung' = hung
  BY DEF DeleteInventory
<1>4. slots' \in [Inventory -> Seq (Slot \ {Tmp})]
  <2>1. InitSlots[i] \in Seq (Slot \ {Tmp})
    BY DEF InventoriesAssumption
  <2>2. QED
    BY <1>1, <1>3, <2>1
<1>5. InUse \subseteq InUse' \cup S
  <2>1. SUFFICES ASSUME NEW j \in Inventory, NEW u \in SlotsOf (j), j # i PROVE u \in InUse'
    BY DEF InUse
  <2>2. slots'[j] = slots[j]
    BY <1>1, <1>3, <2>1
  <2>3. u \in SlotsOf (j)'
    BY <2>2 DEF SlotsOf
  <2>4. QED
    BY <2>3 DEF InUse
<1> HIDE DEF S
<1>6. heap' = g /\ alive' = alive \ dead /\ made' = LessThose (made, heap, S)
  BY <1>1, <1>3, EmptiedIs DEF ClearAll, LessThose
<1> DEFINE V == InUse'
<1>7. InUse \subseteq V \cup S
  BY <1>5
<1> HIDE DEF V
<1>8. EmptyOutside (heap, V \cup S)
  BY <1>1, <1>7, OutsideLess
<1>9. dead = Deleted (heap, S) /\ g = Emptied (heap, S, dead)
  OBVIOUS
<1> HIDE DEF dead, g
<1>10. Fits (g, hand, alive \ dead, LessThose (made, heap, S), V)
  BY <1>1, <1>2, <1>8, <1>9, FitsEmptied
<1>11. Fits (heap', hand', alive', made', InUse')
  BY <1>3, <1>6, <1>10 DEF V
<1>12. QED
  BY <1>1, <1>3, <1>4, <1>11 DEF IInv

-----------------------------------------------------------------------------
(* Saving and loading. *)

SaveAll (h, b, list) == FoldLeft (LAMBDA a, s : SaveSlot (h, a, s), b, list)

\* The loop over the slots that are saved as a run.
SaveAllIn (A, list, h) == \A j \in 1 .. Len (list), d \in A : SaveSlot (h, d, list[j]) \in A

SaveAllRun (run, A, b, list, h) ==
  /\ run[0] = b /\ run[Len (list)] = SaveAll (h, b, list)
  /\ \A j \in 1 .. Len (list) : run[j - 1] \in A /\ run[j] = SaveSlot (h, run[j - 1], list[j])

LEMMA SavedRuns ==
  ASSUME NEW S, NEW list, list \in Seq (S), NEW A, NEW b, b \in A, NEW h, SaveAllIn (A, list, h)
  PROVE  /\ SaveAll (h, b, list) \in A
         /\ \E run : SaveAllRun (run, A, b, list, h)
<1> DEFINE l == Len (list)
           F == [p \in (1 .. l) \X A |-> SaveSlot (h, p[2], list[p[1]])]
           At (g, x) == IF x = {} THEN b ELSE SaveSlot (h, g[x \ {Max (x)}], list[Max (x)])
           Step (g) == [x \in SUBSET (1 .. l) |-> At (g, x)]
           iter == CHOOSE g : g = Step (g)
           r == SaveAll (h, b, list)
<1>1. l \in Nat /\ DOMAIN list = 1 .. l
  BY LenProperties
<1>2. r = iter[1 .. l]
  BY <1>1 DEF SaveAll, FoldLeft, MapThenFoldSet, Max
<1>3. \A j \in 1 .. l, d \in A : SaveSlot (h, d, list[j]) \in A
  BY DEF SaveAllIn
<1> HIDE DEF l, r
<1>4. /\ F \in [(1 .. l) \X A -> A]
      /\ \A j \in 1 .. l, d \in A : F[<<j, d>>] = SaveSlot (h, d, list[j])
  BY <1>1, <1>3
<1> HIDE DEF F
<1>5. /\ \E g \in [SUBSET (1 .. l) -> A] : IsFold (g, l, b, F)
      /\ \A x \in SUBSET (1 .. l) : x # {} => Max (x) \in 1 .. l /\ x \ {Max (x)} \in SUBSET (1 .. l)
  BY <1>1, <1>4, FoldGoesOn
<1>6. PICK g \in [SUBSET (1 .. l) -> A] : IsFold (g, l, b, F)
  BY <1>5
<1>7. \A x \in SUBSET (1 .. l) : iter[x] = At (iter, x)
  <2>1. \A x \in SUBSET (1 .. l) : g[x] = At (g, x)
    BY <1>4, <1>5, <1>6 DEF IsFold
  <2> HIDE DEF At
  <2>2. g = Step (g)
    BY <2>1
  <2> HIDE DEF Step
  <2>3. iter = Step (iter)
    BY <2>2
  <2> HIDE DEF iter
  <2>4. QED
    BY <2>3 DEF Step
<1> HIDE DEF iter
<1>8. Iterates (iter, l, A, b, F)
  BY <1>4, <1>5, <1>7 DEF Iterates
<1>9. PICK run \in [0 .. l -> A] : run[l] = iter[1 .. l] /\ IsRun (run, l, b, F)
  BY <1>1, <1>4, <1>8, FoldRuns
<1>10. \A j \in 1 .. l : run[j - 1] \in A /\ run[j] = SaveSlot (h, run[j - 1], list[j])
  <2>1. \A j \in 1 .. l : j - 1 \in 0 .. l
    BY <1>1
  <2>2. \A j \in 1 .. l : run[j - 1] \in A
    BY <2>1
  <2>3. \A j \in 1 .. l : run[j] = F[<<j, run[j - 1]>>]
    BY <1>9 DEF IsRun
  <2>4. QED
    BY <1>4, <2>2, <2>3
<1>11. run[0] = b
  BY <1>9 DEF IsRun
<1>12. run[l] \in A
  <2>1. l \in 0 .. l
    BY <1>1
  <2>2. QED
    BY <2>1, <1>9
<1>13. QED
  BY <1>2, <1>9, <1>10, <1>11, <1>12 DEF l, r, SaveAllRun

LEMMA SavedIs ==
  ASSUME NEW h, NEW S, NEW list, list \in Seq (S)
  PROVE  /\ Saved (h, list) \in Seq (S)
         /\ \A j \in 1 .. Len (list) : h.count[list[j]] > 0 => list[j] \in ToSet (Saved (h, list))
<1> DEFINE l == Len (list)
           A == Seq (S)
           b == <<>>
<1>1. l \in Nat /\ \A j \in 1 .. l : list[j] \in S
  BY LenProperties, ElementOfSeq
<1>2. b \in A
  BY EmptySeq
<1> HIDE DEF A
<1>3. \A j \in 1 .. l, d \in A : SaveSlot (h, d, list[j]) \in A
  <2>1. SUFFICES ASSUME NEW j \in 1 .. l, NEW d \in A PROVE SaveSlot (h, d, list[j]) \in A
    OBVIOUS
  <2>2. list[j] \in S /\ d \in Seq (S)
    BY <1>1 DEF A
  <2>3. Append (d, list[j]) \in A
    BY <2>2, AppendProperties DEF A
  <2>4. QED
    BY <2>3 DEF SaveSlot
<1>4. SaveAllIn (A, list, h)
  BY <1>3 DEF SaveAllIn
<1> DEFINE r == SaveAll (h, b, list)
<1>5. Saved (h, list) = r
  BY DEF Saved, SaveAll
<1> HIDE DEF b
<1>6. r \in A /\ \E run : SaveAllRun (run, A, b, list, h)
  BY <1>2, <1>4, SavedRuns
<1>7. PICK run : SaveAllRun (run, A, b, list, h)
  BY <1>6
<1>8. /\ run[0] = b /\ run[l] = r
      /\ \A j \in 1 .. l : run[j - 1] \in A /\ run[j] = SaveSlot (h, run[j - 1], list[j])
  BY <1>7 DEF SaveAllRun
<1> HIDE DEF l, r
<1> DEFINE T == {j \in 0 .. l : \A m \in 1 .. j : h.count[list[m]] > 0 => list[m] \in ToSet (run[j])}
<1>9. 0 \in T
  BY <1>1
<1>10. \A j \in 1 .. l : j - 1 \in T => j \in T
  <2>1. SUFFICES ASSUME NEW j \in 1 .. l, j - 1 \in T, NEW m \in 1 .. j, h.count[list[m]] > 0
                 PROVE  list[m] \in ToSet (run[j])
    BY <1>1
  <2>2. list[j] \in S /\ run[j - 1] \in Seq (S) /\ run[j] = SaveSlot (h, run[j - 1], list[j])
    BY <1>1, <1>8 DEF A
  <2>3. ToSet (Append (run[j - 1], list[j])) = ToSet (run[j - 1]) \cup {list[j]}
    BY <2>2, AppendSet
  <2>4. CASE m = j
    BY <2>1, <2>2, <2>3, <2>4 DEF SaveSlot
  <2>5. CASE m # j
    <3>1. m \in 1 .. j - 1
      BY <1>1, <2>5
    <3>2. list[m] \in ToSet (run[j - 1])
      BY <2>1, <3>1
    <3>3. QED
      BY <2>2, <2>3, <3>2 DEF SaveSlot
  <2>6. QED
    BY <2>4, <2>5
<1> HIDE DEF T
<1>11. \A j \in 0 .. l : j \in T
  BY <1>1, <1>9, <1>10, StepByStep
<1>12. l \in T
  BY <1>1, <1>11
<1>13. \A m \in 1 .. l : h.count[list[m]] > 0 => list[m] \in ToSet (r)
  BY <1>8, <1>12 DEF T
<1>14. QED
  BY <1>5, <1>6, <1>13 DEF A, l

LEMMA ReloadStep ==
  ASSUME ItemAssumption, InventoriesAssumption, IInv, NEW i \in Inventory, Reload (i)
  PROVE  IInv'
<1> DEFINE seen == {o \in Shared : \E s \in SlotsOf (i) : heap.held[s] = o}
           f == [o \in Item |-> IF o \in seen THEN None ELSE heap.slot[o]]
           kept == IF i \in Limited THEN slots[i] ELSE Saved (heap, slots[i])
<1>1. /\ Fits (heap, hand, alive, made, InUse) /\ Good (heap) /\ heap \in HeapType /\ EmptyOutside (heap, InUse)
      /\ slots \in [Inventory -> Seq (Slot \ {Tmp})] /\ hung = FALSE /\ Held (heap, hand, alive)
      /\ InUse \subseteq Slot \ {Tmp}
  BY InOrder DEF Good
<1>2. slots' = [slots EXCEPT ![i] = kept] /\ hand' = hand /\ alive' = alive /\ made' = made /\ hung' = hung
  BY DEF Reload
<1>3. heap = Heap (heap.held, heap.count, heap.next, heap.slot) /\ heap.slot \in [Item -> Slot \cup {None}]
      /\ heap.held \in [Slot -> Item \cup {None}] /\ heap.count \in [Slot -> Nat]
      /\ heap.next \in [Mutable -> Mutable \cup {None}]
  BY <1>1, HeapIs
<1>4. heap' = Heap (heap.held, heap.count, heap.next, f)
  <2> DEFINE e == [o \in Item |-> IF o \in Shared /\ \E s \in SlotsOf (i) : heap.held[s] = o
                       THEN None ELSE heap.slot[o]]
  <2>1. heap' = [heap EXCEPT !.slot = e]
    BY <1>3 DEF Reload
  <2>2. e = f
    OBVIOUS
  <2> HIDE DEF e, f
  <2>3. QED
    BY <1>3, <2>1, <2>2 DEF Heap
<1>5. f \in [Item -> Slot \cup {None}] /\ (\A p \in Mutable : f[p] = heap.slot[p])
      /\ \A k \in Shared : f[k] = heap.slot[k] \/ f[k] = None
  BY <1>3 DEF ItemAssumption, Item
<1> HIDE DEF f, kept
<1>6. Like (heap, heap')
  <2>1. heap' \in HeapType
    BY <1>3, <1>4, <1>5, HeapMade
  <2>2. QED
    BY <1>4, <1>5, <2>1 DEF Like, Heap
<1>7. hand.item \in Shared => heap'.slot[hand.item] = heap.slot[hand.item]
  <2>1. hand.item \in Shared => heap.slot[hand.item] = None
    BY <1>1 DEF Held, ItemAssumption, Empty
  <2>2. QED
    BY <1>4, <1>5, <2>1 DEF Heap
<1>8. Fits (heap', hand, alive, made, InUse)
  BY <1>1, <1>6, <1>7, FitsLike
<1>9. slots[i] \in Seq (Slot \ {Tmp}) /\ SlotsOf (i) = {slots[i][j] : j \in 1 .. Len (slots[i])}
  BY <1>1, SlotList
<1>10. kept \in Seq (Slot \ {Tmp}) /\ \A u \in SlotsOf (i) : heap.count[u] > 0 => u \in ToSet (kept)
  <2>1. CASE i \in Limited
    BY <1>9, <2>1 DEF kept, SlotsOf
  <2>2. CASE i \notin Limited
    BY <1>9, <2>2, SavedIs DEF kept
  <2>3. QED
    BY <2>1, <2>2
<1>11. slots' \in [Inventory -> Seq (Slot \ {Tmp})] /\ slots'[i] = kept
  BY <1>1, <1>2, <1>10
<1> DEFINE V == InUse'
<1>12. EmptyOutside (heap, V)
  <2>1. SUFFICES ASSUME NEW u \in Slot, u \notin V, heap.count[u] # 0 PROVE FALSE
    BY DEF EmptyOutside
  <2>2. u \in InUse /\ heap.count[u] > 0
    BY <1>1, <1>3, <2>1 DEF EmptyOutside
  <2>3. PICK j \in Inventory : u \in SlotsOf (j)
    BY <2>2 DEF InUse
  <2>4. u \in SlotsOf (j)'
    <3>1. CASE j = i
      <4>1. u \in ToSet (kept)
        BY <1>10, <2>2, <2>3, <3>1
      <4>2. QED
        BY <1>11, <3>1, <4>1 DEF SlotsOf
    <3>2. CASE j # i
      <4>1. slots'[j] = slots[j]
        BY <1>1, <1>2, <3>2
      <4>2. QED
        BY <2>3, <4>1 DEF SlotsOf
    <3>3. QED
      BY <3>1, <3>2
  <2>5. QED
    BY <2>1, <2>4 DEF InUse
<1> HIDE DEF V
<1>13. EmptyOutside (heap', V)
  BY <1>6, <1>12, OutsideLike
<1>14. Fits (heap', hand, alive, made, V)
  BY <1>8, <1>13 DEF Fits
<1>15. Fits (heap', hand', alive', made', InUse')
  BY <1>2, <1>14 DEF V
<1>16. QED
  BY <1>1, <1>2, <1>11, <1>15 DEF IInv

-----------------------------------------------------------------------------
(* Combining. *)

\* Slot s has n items of kind k and nothing else.
Has (h, s, k, n) == \A j \in Kinds : Amount (h, s, j) = IF j = k THEN n ELSE 0

LEMMA HasIs ==
  ASSUME ItemAssumption, NEW h, Good (h), NEW s \in Slot, NEW k \in Kinds, NEW n \in Nat, Has (h, s, k, n)
  PROVE  /\ h.count[s] = n
         /\ n > 0 => h.held[s] \in Item /\ KindOf[h.held[s]] = k /\ h.held[s] # None
         /\ n = 0 => h.held[s] = None
<1>1. CASE n = 0
  <2>1. \A j \in Kinds : Amount (h, s, j) = 0
    BY <1>1 DEF Has
  <2>2. h.count[s] = 0
    BY <2>1, EmptySlot
  <2>3. QED
    BY <1>1, <2>2, GoodSlot
<1>2. CASE n > 0
  <2>1. Amount (h, s, k) = n
    BY DEF Has
  <2>2. h.held[s] # None /\ KindOf[h.held[s]] = k /\ h.count[s] = n
    BY <1>2, <2>1 DEF Amount
  <2>3. QED
    BY <1>2, <2>2, GoodSlot
<1>3. QED
  BY <1>1, <1>2

LEMMA HasWhat ==
  ASSUME NEW h, NEW s, h.held[s] # None
  PROVE  Has (h, s, KindOf[h.held[s]], h.count[s])
BY DEF Has, Amount

LEMMA HasNothing ==
  ASSUME ItemAssumption, NEW h, Good (h), NEW s \in Slot, h.count[s] = 0, NEW k
  PROVE  Has (h, s, k, 0)
BY EmptySlot DEF Has

LEMMA HasLike ==
  ASSUME NEW h, NEW g, g.held = h.held, g.count = h.count, NEW s, NEW k, NEW n, Has (h, s, k, n)
  PROVE  Has (g, s, k, n)
BY DEF Has, Amount

LEMMA HasBeside ==
  ASSUME ItemAssumption, NEW h \in HeapType, NEW g, NEW s, NEW t, NEW l, NEW c \in Nat, Moved (h, g, s, t, l, c),
         NEW u \in Slot, u # s, u # t, NEW k, NEW n \in Nat, Has (h, u, k, n)
  PROVE  Has (g, u, k, n)
<1>1. ASSUME NEW j \in Kinds PROVE Amount (g, u, j) = IF j = k THEN n ELSE 0
  <2>1. Amount (g, u, j) = Amount (h, u, j) + (IF u = s /\ j = l THEN c ELSE 0) - (IF u = t /\ j = l THEN c ELSE 0)
    BY DEF Moved
  <2>2. Amount (h, u, j) = IF j = k THEN n ELSE 0
    BY DEF Has
  <2>3. QED
    BY <2>1, <2>2
<1>2. QED
  BY <1>1 DEF Has

LEMMA HasLess ==
  ASSUME ItemAssumption, NEW h \in HeapType, NEW g, NEW s, NEW t \in Slot, s # t, NEW k, NEW c \in Nat,
         Moved (h, g, s, t, k, c), NEW n \in Nat, Has (h, t, k, n), NEW m, m = n - c
  PROVE  Has (g, t, k, m)
<1>1. ASSUME NEW j \in Kinds PROVE Amount (g, t, j) = IF j = k THEN m ELSE 0
  <2>1. Amount (g, t, j) = Amount (h, t, j) + (IF t = s /\ j = k THEN c ELSE 0) - (IF t = t /\ j = k THEN c ELSE 0)
    BY DEF Moved
  <2>2. Amount (h, t, j) = IF j = k THEN n ELSE 0
    BY DEF Has
  <2>3. QED
    BY <2>1, <2>2
<1>2. QED
  BY <1>1 DEF Has

LEMMA HasMore ==
  ASSUME ItemAssumption, NEW h \in HeapType, NEW g, NEW s \in Slot, NEW t, s # t, NEW k, NEW c \in Nat,
         Moved (h, g, s, t, k, c), NEW n \in Nat, Has (h, s, k, n), NEW m, m = n + c
  PROVE  Has (g, s, k, m)
<1>1. ASSUME NEW j \in Kinds PROVE Amount (g, s, j) = IF j = k THEN m ELSE 0
  <2>1. Amount (g, s, j) = Amount (h, s, j) + (IF s = s /\ j = k THEN c ELSE 0) - (IF s = t /\ j = k THEN c ELSE 0)
    BY DEF Moved
  <2>2. Amount (h, s, j) = IF j = k THEN n ELSE 0
    BY DEF Has
  <2>3. QED
    BY <2>1, <2>2
<1>2. QED
  BY <1>1 DEF Has

\* What a slot has of a kind that is stacked to the most.
LEMMA TakesOne ==
  ASSUME ItemAssumption, NEW h, Good (h), NEW s \in Slot, NEW o \in Item, h.slot[o] # s,
         NEW m \in Nat, Has (h, s, KindOf[o], m)
  PROVE  Takes (h, s, o, 1) = Least (MaxStack (o) - m, 1)
<1> DEFINE k == KindOf[o]
<1>1. k \in Kinds /\ Has (h, s, k, m)
  BY DEF Kinds
<1> HIDE DEF k
<1>2. h.count[s] = m /\ (m > 0 => KindOf[h.held[s]] = k) /\ (m = 0 => h.held[s] = None)
  BY <1>1, HasIs
<1>3. ~ (h.held[s] # None /\ ~ Same (h.held[s], o))
  BY <1>2 DEF Same, k
<1>4. QED
  BY <1>2, <1>3 DEF Takes

\* Shared items are looked up by their kind.
LEMMA KindShared ==
  ASSUME ItemAssumption, NEW o \in Item, KindOf[o] \in Shared
  PROVE  o \in Shared /\ o = KindOf[o]
BY DEF ItemAssumption, Item

LEMMA HeldSlot ==
  ASSUME ItemAssumption, NEW h, Good (h), NEW s \in Slot, h.held[s] \in Mutable
  PROVE  h.slot[h.held[s]] = s
<1>1. PICK c : Filed (h, c, s)
  BY DEF Good
<1>2. h.count[s] \in Nat \ {0} /\ h.held[s] = c[1] /\ \A i \in 1 .. h.count[s] : h.slot[c[i]] = s
  BY <1>1, FiledItems
<1>3. QED
  BY <1>2

\* The hand does not hold the shared item of kind k.
NotHeld (hd, k) == k \in Shared => hd.item # k

\* Only what is in slot s changes, and what is said of it.
OnlyIn (h, g, s) ==
  /\ \A u \in Slot : u # s => g.held[u] = h.held[u] /\ \A j \in Kinds : Amount (g, u, j) = Amount (h, u, j)
  /\ \A p \in Item : h.slot[p] # s => g.slot[p] = h.slot[p]
  /\ \A k \in Shared : g.slot[k] = h.slot[k]

LEMMA OnlyInItself ==
  ASSUME NEW h, NEW s
  PROVE  OnlyIn (h, h, s)
BY DEF OnlyIn

LEMMA HasOnlyIn ==
  ASSUME NEW h, NEW g, NEW s, OnlyIn (h, g, s), NEW u \in Slot, u # s, NEW k, NEW n, Has (h, u, k, n)
  PROVE  Has (g, u, k, n)
BY DEF OnlyIn, Has

\* Both slots are looked into.
LEMMA SeenBoth ==
  ASSUME ItemAssumption, NEW h, NEW hd, NEW al, NEW md, NEW U, Fits (h, hd, al, md, U),
         NEW t \in Slot, NEW b \in Slot, NEW P, NEW Q, P # Q, NotHeld (hd, P), NotHeld (hd, Q),
         NEW o, o = h.held[t], NEW a, a = h.held[b], o \in Item, a \in Item, KindOf[o] = P, KindOf[a] = Q,
         NEW g, g = GetItem (GetItem (h, t), b)
  PROVE  /\ Fits (g, hd, al, md, U) /\ Good (g) /\ g.held = h.held /\ g.count = h.count
         /\ g.slot[o] = t /\ g.slot[a] = b
<1> DEFINE f == GetItem (h, t)
<1>1. o # None /\ a # None /\ o # a /\ (o \in Shared => o = P) /\ (a \in Shared => a = Q)
  BY DEF ItemAssumption, Item
<1>2. (o \in Shared => o # hd.item) /\ (a \in Shared => a # hd.item)
  BY <1>1 DEF NotHeld
<1>3. f = GetItem (h, t) /\ g = GetItem (f, b)
  OBVIOUS
<1> HIDE DEF f
<1>4. Fits (f, hd, al, md, U) /\ Good (f) /\ f.held = h.held /\ f.count = h.count
  BY <1>1, <1>2, <1>3, FitsLook
<1>5. f.slot[o] = t
  BY <1>1, <1>2, <1>3, FitsLook
<1>6. f.held[b] = a
  BY <1>4
<1>7. /\ Fits (g, hd, al, md, U) /\ Good (g) /\ g.held = f.held /\ g.count = f.count /\ g.slot[a] = b
      /\ \A k \in Shared : k # a => g.slot[k] = f.slot[k]
  BY <1>1, <1>2, <1>3, <1>4, <1>6, FitsLook
<1>8. g.slot[o] = t
  <2>1. CASE o \in Shared
    BY <1>1, <1>5, <1>7, <2>1
  <2>2. CASE o \notin Shared
    <3>1. g.held[t] = o /\ o \in Mutable
      BY <1>4, <1>7, <2>2 DEF Item
    <3>2. QED
      BY <1>7, <3>1, HeldSlot
  <2>3. QED
    BY <2>1, <2>2
<1>9. QED
  BY <1>4, <1>7, <1>8

\* One item of slot s, on top of it, was destroyed.
Lost (h, g, s, o, dead) ==
  /\ Destroyed (h, o) = [heap |-> g, dead |-> dead] /\ dead \subseteq Mutable
  /\ OnlyIn (h, g, s)

LEMMA DestroyOne ==
  ASSUME ItemAssumption, InventoriesAssumption, NEW h, NEW hd, NEW al, NEW md, NEW U, Fits (h, hd, al, md, U),
         NEW s \in Slot, NEW o \in Item, h.held[s] = o, h.slot[o] = s, NEW k, k = KindOf[o],
         NEW x \in Nat, Has (h, s, k, x), NEW y, y = x - 1
  PROVE  \E g, dead : /\ Lost (h, g, s, o, dead)
                      /\ Fits (g, hd, al \ dead, Fewer (md, k, 1), U)
                      /\ Has (g, s, k, y)
<1> DEFINE dead == {o} \cap Mutable
<1>1. Good (h) /\ h \in HeapType /\ None \notin Slot /\ 1 \in Nat
  BY DEF Fits, Good, ItemAssumption
<1>2. PICK g : /\ Destroyed (h, o) = [heap |-> g, dead |-> dead]
               /\ Removed (h, g, s, o, 1) /\ Frame (h, g)
               /\ (o \in Mutable => g.next[o] = None)
               /\ Free (g) = Free (h) \cup dead
  BY <1>1, DestroyedIs
<1>3. dead = {o} \cap Mutable /\ dead \subseteq Mutable
  OBVIOUS
<1> HIDE DEF dead
<1>4. Fits (g, hd, al \ dead, Fewer (md, KindOf[o], 1), U)
  BY <1>2, <1>3, FitsGone
<1>5. Moved (h, g, None, s, k, 1) /\ Beside (h, g, s) /\ FrameBut (h, g, o)
  BY <1>2 DEF Removed
<1>6. Has (g, s, k, y)
  <2>1. ASSUME NEW j \in Kinds PROVE Amount (g, s, j) = IF j = k THEN y ELSE 0
    <3>1. Amount (g, s, j) = Amount (h, s, j) + (IF s = None /\ j = k THEN 1 ELSE 0) - (IF s = s /\ j = k THEN 1 ELSE 0)
      BY <1>5 DEF Moved
    <3>2. Amount (h, s, j) = IF j = k THEN x ELSE 0
      BY DEF Has
    <3>3. s # None
      BY <1>1
    <3>4. QED
      BY <3>1, <3>2, <3>3
  <2>2. QED
    BY <2>1 DEF Has
<1>7. OnlyIn (h, g, s)
  <2>1. ASSUME NEW u \in Slot, u # s
        PROVE  g.held[u] = h.held[u] /\ \A j \in Kinds : Amount (g, u, j) = Amount (h, u, j)
    <3>1. g.held[u] = h.held[u]
      BY <1>5, <2>1 DEF Beside
    <3>2. ASSUME NEW j \in Kinds PROVE Amount (g, u, j) = Amount (h, u, j)
      <4>1. Amount (g, u, j) = Amount (h, u, j) + (IF u = None /\ j = k THEN 1 ELSE 0) - (IF u = s /\ j = k THEN 1 ELSE 0)
        BY <1>5 DEF Moved
      <4>2. Amount (h, u, j) \in Nat /\ u # None
        BY <1>1, AmountType
      <4>3. QED
        BY <2>1, <4>1, <4>2
    <3>3. QED
      BY <3>1, <3>2
  <2>2. \A m \in Shared : g.slot[m] = h.slot[m]
    BY <1>2 DEF Frame
  <2>3. ASSUME NEW p \in Item, h.slot[p] # s PROVE g.slot[p] = h.slot[p]
    BY <1>5, <2>2, <2>3 DEF Beside, Item
  <2>4. QED
    BY <2>1, <2>2, <2>3 DEF OnlyIn
<1>8. Lost (h, g, s, o, dead)
  BY <1>2, <1>3, <1>7 DEF Lost
<1>9. QED
  BY <1>4, <1>6, <1>8

\* What there is after the agent was used once.
Spent (md, recipe) == IF recipe.consumes THEN Fewer (md, recipe.agent, 1) ELSE md
UseAgent (h, a, recipe) == IF recipe.consumes THEN Destroyed (h, a) ELSE [heap |-> h, dead |-> {}]
StillHas (recipe, y) == IF recipe.consumes THEN y - 1 ELSE y

LEMMA AgentUsed ==
  ASSUME ItemAssumption, InventoriesAssumption, NEW h, NEW hd, NEW al, NEW md, NEW U, Fits (h, hd, al, md, U),
         NEW recipe, NEW b \in Slot, NEW a \in Item, h.held[b] = a, h.slot[a] = b, recipe.agent = KindOf[a],
         NEW y \in Nat, Has (h, b, recipe.agent, y)
  PROVE  \E g, d : /\ UseAgent (h, a, recipe) = [heap |-> g, dead |-> d] /\ d \subseteq Mutable
                   /\ OnlyIn (h, g, b)
                   /\ Fits (g, hd, al \ d, Spent (md, recipe), U)
                   /\ Has (g, b, recipe.agent, StillHas (recipe, y))
<1> DEFINE k == recipe.agent
           z == y - 1
<1>1. CASE recipe.consumes
  <2>1. k = KindOf[a] /\ Has (h, b, k, y) /\ z = y - 1
    OBVIOUS
  <2> HIDE DEF k, z
  <2>2. PICK g, d : /\ Lost (h, g, b, a, d)
                    /\ Fits (g, hd, al \ d, Fewer (md, k, 1), U)
                    /\ Has (g, b, k, z)
    BY <2>1, DestroyOne
  <2>3. UseAgent (h, a, recipe) = [heap |-> g, dead |-> d] /\ d \subseteq Mutable /\ OnlyIn (h, g, b)
    BY <1>1, <2>2 DEF UseAgent, Lost
  <2>4. Spent (md, recipe) = Fewer (md, k, 1) /\ StillHas (recipe, y) = z
    BY <1>1 DEF Spent, StillHas, k, z
  <2>5. QED
    BY <2>2, <2>3, <2>4 DEF k
<1>2. CASE ~ recipe.consumes
  <2>1. UseAgent (h, a, recipe) = [heap |-> h, dead |-> {}] /\ Spent (md, recipe) = md /\ StillHas (recipe, y) = y
    BY <1>2 DEF UseAgent, Spent, StillHas
  <2> DEFINE d == {}
             md1 == Spent (md, recipe)
             z1 == StillHas (recipe, y)
             use == UseAgent (h, a, recipe)
  <2>2. OnlyIn (h, h, b) /\ al \ d = al /\ d \subseteq Mutable
    BY OnlyInItself
  <2>3. use = [heap |-> h, dead |-> d] /\ md1 = md /\ z1 = y
    BY <2>1
  <2> HIDE DEF d, md1, z1, use
  <2>4. Fits (h, hd, al \ d, md1, U) /\ Has (h, b, k, z1)
    BY <2>2, <2>3
  <2> HIDE DEF k
  <2>5. \E g, e : /\ use = [heap |-> g, dead |-> e] /\ e \subseteq Mutable
                  /\ OnlyIn (h, g, b)
                  /\ Fits (g, hd, al \ e, md1, U)
                  /\ Has (g, b, k, z1)
    BY <2>2, <2>3, <2>4
  <2>6. QED
    BY <2>5 DEF k, md1, z1, use
<1>3. QED
  BY <1>1, <1>2

\* One item of what is produced comes to the temporary slot.
LEMMA Produced ==
  ASSUME ItemAssumption, InventoriesAssumption, NEW h, NEW hd, NEW al, NEW md, NEW U, Fits (h, hd, al, md, U), Tmp \in U,
         NEW t \in Slot \cup {None}, t # Tmp, NEW o \in Item, Source (h, o, 1, t), o \in Mutable => t # None,
         NEW k, k = KindOf[o], NEW m \in Nat, Has (h, Tmp, k, m), m <= MaxStack (o),
         NEW q, q = Least (MaxStack (o) - m, 1), NEW e, e = AddItems (h, Tmp, o, 1).heap
  PROVE  /\ q \in Nat /\ Good (e)
         /\ Moved (h, e, Tmp, t, k, q)
         /\ Has (e, Tmp, k, m + q)
         /\ IF t = None THEN Fits (e, hd, al, More (md, k, q), U) ELSE Fits (e, hd, al, md, U)
<1> DEFINE one == 1
<1>1. Good (h) /\ EmptyOutside (h, U) /\ h \in HeapType /\ Tmp \in Slot /\ None \notin Slot
  BY DEF Fits, Good, InventoriesAssumption, ItemAssumption
<1>2. MaxStack (o) \in Nat \ {0}
  BY DEF MaxStack, ItemAssumption, Item
<1>3. q \in Nat /\ one \in Nat /\ Source (h, o, one, t)
  BY <1>2 DEF Least
<1>4. h.slot[o] # Tmp
  BY <1>1 DEF Source
<1>5. Takes (h, Tmp, o, one) = q
  BY <1>1, <1>4, TakesOne
<1> HIDE DEF one
<1>6. PICK g : /\ AddItems (h, Tmp, o, one) = [heap |-> g, rest |-> one - q]
               /\ Came (h, g, U, t, o, q) /\ Added (h, g, Tmp, t, o, q)
  BY <1>1, <1>3, <1>5, AddCame
<1>7. e = g
  BY <1>6 DEF one
<1>8. Good (e) /\ Moved (h, e, Tmp, t, k, q)
  BY <1>6, <1>7 DEF Added
<1>9. Has (e, Tmp, k, m + q)
  <2> DEFINE n == m + q
  <2>1. n = m + q /\ Tmp # t /\ Tmp \in Slot /\ q \in Nat
    BY <1>1, <1>3
  <2> HIDE DEF n
  <2>2. Moved (h, e, Tmp, t, k, q) /\ h \in HeapType
    BY <1>1, <1>8
  <2>3. Has (e, Tmp, k, n)
    BY <2>1, <2>2, HasMore
  <2>4. QED
    BY <2>3 DEF n
<1>10. CASE t = None
  <2> DEFINE own == {o} \cap Mutable
  <2>1. own = {o} \cap Mutable /\ own = {} /\ o \notin Mutable
    BY <1>10
  <2> HIDE DEF own
  <2>2. Came (h, e, U, None, o, q) /\ own \cap al = {} /\ q \in Nat
    BY <1>3, <1>6, <1>7, <1>10, <2>1
  <2>3. Fits (e, hd, al \cup own, More (md, KindOf[o], q), U)
    BY <2>1, <2>2, FitsArrive
  <2>4. Fits (e, hd, al, More (md, k, q), U)
    BY <2>1, <2>3
  <2>5. QED
    BY <1>3, <1>8, <1>9, <1>10, <2>4
<1>11. CASE t # None
  <2>1. t \in Slot /\ Came (h, e, U, t, o, q)
    BY <1>6, <1>7, <1>11
  <2>2. Fits (e, hd, al, md, U)
    BY <2>1, FitsFromSlot
  <2>3. QED
    BY <1>3, <1>8, <1>9, <1>11, <2>2
<1>12. QED
  BY <1>10, <1>11

\* The target is destroyed, and the result comes from the storage.
\* What the slots but t have they keep.
Keeps (h, g, t) == \A u \in Slot : \A j, n : u # t /\ Has (h, u, j, n) => Has (g, u, j, n)

\* Item o of slot t gives way to a shared item R.
Traded (h, g, d, R, o, t) ==
  /\ Destroyed (FromStorage (h, R), o) = [heap |-> g, dead |-> d] /\ d \subseteq Mutable
  /\ Keeps (h, g, t)
  /\ g.slot[R] = None

LEMMA TargetReplaced ==
  ASSUME ItemAssumption, InventoriesAssumption, NEW h, NEW hd, NEW al, NEW md, NEW U, Fits (h, hd, al, md, U),
         NEW t \in Slot, NEW o \in Item, h.held[t] = o, h.slot[o] = t, NEW k, k = KindOf[o],
         NEW R \in Shared, R # k, NEW x \in Nat, Has (h, t, k, x), NEW y, y = x - 1
  PROVE  \E g, d : /\ Traded (h, g, d, R, o, t)
                   /\ Fits (g, hd, al \ d, Fewer (md, k, 1), U)
                   /\ Has (g, t, k, y)
<1> DEFINE f == FromStorage (h, R)
<1>1. f = Told (h, R, None)
  BY DEF FromStorage, Told
<1> HIDE DEF f
<1>2. /\ Fits (f, hd, al, md, U) /\ f.slot[R] = None /\ Like (h, f)
      /\ \A p \in Item : p # R => f.slot[p] = h.slot[p]
  BY <1>1, FitsTold
<1>3. o # R
  BY DEF ItemAssumption
<1>4. f.held = h.held /\ f.count = h.count /\ f.held[t] = o /\ f.slot[o] = t
  BY <1>2, <1>3 DEF Like
<1>5. Has (f, t, k, x)
  BY <1>4, HasLike
<1>6. PICK g, d : /\ Lost (f, g, t, o, d)
                  /\ Fits (g, hd, al \ d, Fewer (md, k, 1), U)
                  /\ Has (g, t, k, y)
  BY <1>2, <1>4, <1>5, DestroyOne
<1>7. Destroyed (f, o) = [heap |-> g, dead |-> d] /\ d \subseteq Mutable /\ OnlyIn (f, g, t)
  BY <1>6 DEF Lost
<1>8. g.slot[R] = None
  BY <1>2, <1>7 DEF OnlyIn
<1>9. ASSUME NEW u \in Slot, NEW j, NEW n, u # t, Has (h, u, j, n)
      PROVE  Has (g, u, j, n)
  <2>1. Has (f, u, j, n)
    BY <1>4, <1>9, HasLike
  <2>2. QED
    BY <1>7, <1>9, <2>1, HasOnlyIn
<1>10. QED
  BY <1>6, <1>7, <1>8, <1>9 DEF f, Keeps, Traded

\* What a recipe makes, and how many there are of every kind when it was
\* followed n times.
Product (recipe) == IF recipe.result = Self THEN recipe.target ELSE recipe.result

UsedUp (recipe, k, n) == IF k = recipe.agent /\ recipe.consumes THEN n ELSE 0
Replaced (recipe, k, n) == IF k = recipe.target /\ recipe.result # Self THEN n ELSE 0
GotBy (recipe, k, n) == IF k = recipe.result THEN Least (StackOf[recipe.result], n) ELSE 0

Remade (md, recipe, n) ==
  [k \in Kinds |-> md[k] - UsedUp (recipe, k, n) - Replaced (recipe, k, n) + GotBy (recipe, k, n)]

LEMMA SelfIsNoKind ==
  ASSUME InventoriesAssumption
  PROVE  Self \notin Kinds
BY DEF InventoriesAssumption, Kinds, Self, Item

\* l of n fit where S fit, and q when there is one more.
OneMore (S, n, l, q) == l = Least (S, n) /\ q = Least (S - l, 1)
Grows (S, n, l, q) == l \in Nat /\ q \in Nat /\ l <= S /\ l + q = Least (S, n + 1)

LEMMA LeastNext ==
  ASSUME NEW S \in Nat \ {0}, NEW n \in Nat, NEW l, NEW q, OneMore (S, n, l, q)
  PROVE  Grows (S, n, l, q)
BY DEF Least, OneMore, Grows

Sound (recipe) ==
  recipe.consumes \in BOOLEAN /\ (recipe.result # Self => StackOf[recipe.result] \in Nat \ {0})

LEMMA PartsAre ==
  ASSUME InventoriesAssumption, NEW recipe, Sound (recipe), NEW n \in Nat, NEW k \in Kinds
  PROVE  /\ UsedUp (recipe, k, n) \in Nat /\ Replaced (recipe, k, n) \in Nat /\ GotBy (recipe, k, n) \in Nat
         /\ recipe.result = Self => Replaced (recipe, k, n) = 0
         /\ recipe.result = Self => GotBy (recipe, k, n) = 0
<1>1. k # Self
  BY SelfIsNoKind
<1>2. k = recipe.result => Least (StackOf[recipe.result], n) \in Nat
  BY <1>1 DEF Least, Sound
<1>3. GotBy (recipe, k, n) \in Nat /\ (recipe.result = Self => GotBy (recipe, k, n) = 0)
  BY <1>1, <1>2 DEF GotBy
<1>4. QED
  BY <1>3 DEF UsedUp, Replaced

\* One more agent is used up.
One (b) == IF b THEN 1 ELSE 0

LEMMA SpentIs ==
  ASSUME NEW md, NEW recipe, NEW k \in Kinds, NEW u \in Nat, md[k] \in Int,
         NEW b, b = (k = recipe.agent /\ recipe.consumes)
  PROVE  Spent (md, recipe)[k] = md[k] - One (b)
<1>1. CASE recipe.consumes
  <2>1. Fewer (md, recipe.agent, 1)[k] = md[k] - IF k = recipe.agent THEN 1 ELSE 0
    BY DEF Fewer
  <2>2. QED
    BY <1>1, <2>1 DEF Spent, One
<1>2. CASE ~ recipe.consumes
  <2>1. Spent (md, recipe) = md /\ One (b) = 0
    BY <1>2 DEF Spent, One
  <2>2. QED
    BY <2>1
<1>3. QED
  BY <1>1, <1>2

LEMMA RemadeIs ==
  ASSUME InventoriesAssumption, NEW md, md \in [Kinds -> Nat], NEW recipe, Sound (recipe), NEW n \in Nat, NEW k \in Kinds
  PROVE  /\ Remade (md, recipe, n)[k] = md[k] - UsedUp (recipe, k, n) - Replaced (recipe, k, n) + GotBy (recipe, k, n)
         /\ Remade (md, recipe, n)[k] \in Int /\ md[k] \in Nat
<1>1. Remade (md, recipe, n)[k] = md[k] - UsedUp (recipe, k, n) - Replaced (recipe, k, n) + GotBy (recipe, k, n)
  BY DEF Remade
<1>2. UsedUp (recipe, k, n) \in Nat /\ Replaced (recipe, k, n) \in Nat /\ GotBy (recipe, k, n) \in Nat
  BY PartsAre
<1>3. md[k] \in Nat
  OBVIOUS
<1>4. QED
  BY <1>1, <1>2, <1>3

LEMMA SpentOnce ==
  ASSUME InventoriesAssumption, NEW md, md \in [Kinds -> Nat], NEW recipe, Sound (recipe), NEW n \in Nat, NEW k \in Kinds
  PROVE  Spent (Remade (md, recipe, n), recipe)[k]
           = md[k] - UsedUp (recipe, k, n + 1) - Replaced (recipe, k, n) + GotBy (recipe, k, n)
<1> DEFINE r == Remade (md, recipe, n)
           u == UsedUp (recipe, k, n)
           v == UsedUp (recipe, k, n + 1)
           w == Replaced (recipe, k, n)
           z == GotBy (recipe, k, n)
           b == (k = recipe.agent /\ recipe.consumes)
           s == Spent (r, recipe)
<1>1. r[k] = md[k] - u - w + z /\ r[k] \in Int /\ md[k] \in Nat
  BY RemadeIs
<1>2. u \in Nat /\ w \in Nat /\ z \in Nat
  BY PartsAre
<1>3. v = u + One (b)
  BY DEF UsedUp, One
<1>4. One (b) \in Nat
  BY DEF One
<1>5. b = (k = recipe.agent /\ recipe.consumes)
  OBVIOUS
<1> HIDE DEF r, b, u, v, w, z
<1>6. s[k] = r[k] - One (b)
  BY <1>1, <1>5, SpentIs
<1> HIDE DEF s
<1>7. s[k] = md[k] - v - w + z
  BY <1>1, <1>2, <1>3, <1>4, <1>6
<1>8. QED
  BY <1>7 DEF r, s, v, w, z

LEMMA RemadeSelf ==
  ASSUME InventoriesAssumption, NEW md, md \in [Kinds -> Nat], NEW recipe, Sound (recipe),
         recipe.result = Self, NEW n \in Nat
  PROVE  Spent (Remade (md, recipe, n), recipe) = Remade (md, recipe, n + 1)
<1> DEFINE a == Spent (Remade (md, recipe, n), recipe)
           b == Remade (md, recipe, n + 1)
<1>1. ASSUME NEW k \in Kinds PROVE a[k] = b[k]
  <2> DEFINE m == n + 1
  <2>1. m \in Nat
    OBVIOUS
  <2> HIDE DEF m
  <2>2. a[k] = md[k] - UsedUp (recipe, k, n + 1) - Replaced (recipe, k, n) + GotBy (recipe, k, n)
    BY SpentOnce
  <2>3. Remade (md, recipe, m)[k] = md[k] - UsedUp (recipe, k, m) - Replaced (recipe, k, m) + GotBy (recipe, k, m)
    BY <2>1, RemadeIs
  <2>4. Replaced (recipe, k, n) = 0 /\ GotBy (recipe, k, n) = 0
    BY PartsAre
  <2>5. Replaced (recipe, k, m) = 0 /\ GotBy (recipe, k, m) = 0
    BY <2>1, PartsAre
  <2> HIDE DEF a
  <2>6. QED
    BY <2>2, <2>3, <2>4, <2>5 DEF m
<1>2. b = [k \in Kinds |-> b[k]]
  BY DEF Remade
<1>3. a = [k \in Kinds |-> a[k]]
  BY DEF Spent, Fewer, Remade
<1> HIDE DEF a, b
<1>4. a = b
  BY <1>1, <1>2, <1>3
<1>5. QED
  BY <1>4 DEF a, b

\* That is what following the recipe once more makes of what there is.
Renewed (md, recipe, n, q) ==
  More (Fewer (Spent (Remade (md, recipe, n), recipe), recipe.target, 1), recipe.result, q) = Remade (md, recipe, n + 1)

LEMMA RemadeOther ==
  ASSUME InventoriesAssumption, NEW md, md \in [Kinds -> Nat], NEW recipe, Sound (recipe),
         recipe.result # Self, NEW S, S = StackOf[recipe.result], recipe.result # recipe.target, NEW n \in Nat,
         NEW l, NEW q, OneMore (S, n, l, q), Grows (S, n, l, q)
  PROVE  Renewed (md, recipe, n, q)
<1> DEFINE s == Spent (Remade (md, recipe, n), recipe)
           f == Fewer (s, recipe.target, 1)
           a == More (f, recipe.result, q)
           b == Remade (md, recipe, n + 1)
<1>1. ASSUME NEW k \in Kinds PROVE a[k] = b[k]
  <2> DEFINE m == n + 1
             u == UsedUp (recipe, k, m)
  <2>0. q \in Nat /\ l + q = Least (S, m)
    BY DEF Grows
  <2>1. m \in Nat
    OBVIOUS
  <2> HIDE DEF m
  <2>2. s[k] = md[k] - u - Replaced (recipe, k, n) + GotBy (recipe, k, n)
    BY SpentOnce DEF m, u
  <2> HIDE DEF u
  <2>3. b[k] = md[k] - u - Replaced (recipe, k, m) + GotBy (recipe, k, m)
    <3>1. Remade (md, recipe, m)[k] = md[k] - UsedUp (recipe, k, m) - Replaced (recipe, k, m) + GotBy (recipe, k, m)
      BY <2>1, RemadeIs
    <3>2. Remade (md, recipe, m)[k] = md[k] - u - Replaced (recipe, k, m) + GotBy (recipe, k, m)
      BY <3>1 DEF u
    <3>3. b = Remade (md, recipe, m)
      BY DEF m
    <3> HIDE DEF b
    <3>4. QED
      BY <3>2, <3>3
  <2>4. Replaced (recipe, k, n) \in Nat /\ GotBy (recipe, k, n) \in Nat /\ md[k] \in Nat
    BY PartsAre
  <2>5. Replaced (recipe, k, m) \in Nat /\ GotBy (recipe, k, m) \in Nat /\ u \in Nat
    BY <2>1, PartsAre DEF u
  <2>6. f[k] = s[k] - One (k = recipe.target)
    BY DEF Fewer, One
  <2>7. a[k] = f[k] + IF k = recipe.result THEN q ELSE 0
    BY DEF More
  <2>8. Replaced (recipe, k, m) = Replaced (recipe, k, n) + One (k = recipe.target)
    BY DEF Replaced, One, m
  <2>9. GotBy (recipe, k, m) = GotBy (recipe, k, n) + IF k = recipe.result THEN q ELSE 0
    BY <2>0 DEF GotBy, OneMore
  <2>10. One (k = recipe.target) \in Nat /\ (IF k = recipe.result THEN q ELSE 0) \in Nat
    BY <2>0 DEF One
  <2> DEFINE p == One (k = recipe.target)
             w == IF k = recipe.result THEN q ELSE 0
  <2> HIDE DEF s, f, a, b, u, p, w
  <2>11. f[k] = s[k] - p /\ a[k] = f[k] + w /\ p \in Nat /\ w \in Nat
    BY <2>6, <2>7, <2>10 DEF p, w
  <2>12. Replaced (recipe, k, m) = Replaced (recipe, k, n) + p /\ GotBy (recipe, k, m) = GotBy (recipe, k, n) + w
    BY <2>8, <2>9 DEF p, w
  <2> DEFINE x == Replaced (recipe, k, n)
             y == GotBy (recipe, k, n)
             d == md[k]
  <2>13. s[k] = d - u - x + y /\ b[k] = d - u - (x + p) + (y + w)
    BY <2>2, <2>3, <2>12
  <2>14. x \in Nat /\ y \in Nat /\ u \in Nat /\ d \in Nat
    BY <2>4, <2>5
  <2> HIDE DEF x, y, d
  <2>15. a[k] = s[k] - p + w
    BY <2>11
  <2>16. QED
    BY <2>11, <2>13, <2>14, <2>15
<1>2. b = [k \in Kinds |-> b[k]]
  BY DEF Remade
<1>3. a = [k \in Kinds |-> a[k]]
  BY DEF More
<1> HIDE DEF a, b
<1>4. a = b
  BY <1>1, <1>2, <1>3
<1>5. QED
  BY <1>4 DEF a, b, f, s, Renewed

\* How often the agent can still be used.
LeftOver (recipe, M, n) == IF recipe.consumes THEN M - n ELSE M

\* What is known of the slots t and b and of a recipe before it is followed.
Mixing (t, b, recipe, N, M) ==
  /\ t \in Slot /\ b \in Slot /\ t # b /\ t # Tmp /\ b # Tmp
  /\ recipe.target \in Kinds /\ recipe.agent \in Kinds
  /\ recipe.target # recipe.agent /\ recipe.result # recipe.target
  /\ recipe.result # Self => recipe.result \in Shared
  /\ Sound (recipe)
  /\ NotHeld (hand, recipe.target) /\ NotHeld (hand, recipe.agent) /\ hand.item # recipe.result
  /\ made \in [Kinds -> Nat]
  /\ N \in Nat \ {0} /\ M \in Nat \ {0} /\ N <= StackOf[recipe.target]
  /\ StackOf[recipe.target] \in Nat \ {0}

\* The recipe was followed n times.
Mid (h, dead, n, t, b, recipe, N, M) ==
  /\ n \in 0 .. N
  /\ recipe.consumes => n <= M
  /\ Has (h, t, recipe.target, N - n)
  /\ Has (h, b, recipe.agent, LeftOver (recipe, M, n))
  /\ Has (h, Tmp, Product (recipe), Least (StackOf[Product (recipe)], n))
  /\ Fits (h, hand, alive \ dead, Remade (made, recipe, n), InUse \cup {Tmp})

LEMMA CombineKeeps ==
  ASSUME NEW acc, NEW t, NEW b, NEW recipe, recipe.result = Self,
         NEW o, o = acc.heap.held[t], NEW a, a = acc.heap.held[b],
         NEW seen, seen = GetItem (GetItem (acc.heap, t), b),
         NEW g, NEW d, UseAgent (seen, a, recipe) = [heap |-> g, dead |-> d],
         NEW e, e = AddItems (g, Tmp, o, 1).heap
  PROVE  CombineOne (acc, t, b, recipe) = [heap |-> e, dead |-> acc.dead \cup d, n |-> acc.n + 1]
BY DEF CombineOne, UseAgent

LEMMA CombineReplaces ==
  ASSUME NEW acc, NEW t, NEW b, NEW recipe, recipe.result # Self,
         NEW o, o = acc.heap.held[t], NEW a, a = acc.heap.held[b],
         NEW seen, seen = GetItem (GetItem (acc.heap, t), b),
         NEW g, NEW d, UseAgent (seen, a, recipe) = [heap |-> g, dead |-> d],
         NEW f, NEW c, Destroyed (FromStorage (g, recipe.result), o) = [heap |-> f, dead |-> c],
         NEW e, e = AddItems (f, Tmp, recipe.result, 1).heap
  PROVE  CombineOne (acc, t, b, recipe) = [heap |-> e, dead |-> acc.dead \cup (c \cup d), n |-> acc.n + 1]
<1> DEFINE use == UseAgent (seen, a, recipe)
           D == Destroyed (FromStorage (use.heap, recipe.result), o)
           r == [D EXCEPT !.dead = @ \cup use.dead]
<1>1. CombineOne (acc, t, b, recipe) =
        [heap |-> AddItems (r.heap, Tmp, recipe.result, 1).heap, dead |-> acc.dead \cup r.dead, n |-> acc.n + 1]
  BY ZenonT (60) DEF CombineOne, UseAgent
<1>2. use = [heap |-> g, dead |-> d]
  OBVIOUS
<1> HIDE DEF use
<1>3. D = [heap |-> f, dead |-> c]
  BY <1>2
<1> HIDE DEF D
<1> DEFINE x == use.dead
<1>7. x = d
  BY <1>2
<1> HIDE DEF x
<1> DEFINE y == c \cup x
<1>8. [D EXCEPT !.dead = @ \cup x] = [heap |-> f, dead |-> y]
  BY <1>3
<1>9. r = [D EXCEPT !.dead = @ \cup x]
  BY DEF x
<1>4. r = [heap |-> f, dead |-> c \cup d]
  BY <1>7, <1>8, <1>9
<1> HIDE DEF r
<1>5. r.heap = f /\ r.dead = c \cup d
  BY <1>4
<1>6. QED
  BY <1>1, <1>5

\* What is so when the agent was used once more.
Used (h, g, dd, o, n, D, t, b, recipe, N, M) ==
  /\ dd \subseteq Mutable
  /\ Fits (g, hand, (alive \ D) \ dd, Spent (Remade (made, recipe, n), recipe), InUse \cup {Tmp})
  /\ Has (g, b, recipe.agent, LeftOver (recipe, M, n + 1))
  /\ Has (g, t, recipe.target, N - n)
  /\ Has (g, Tmp, Product (recipe), Least (StackOf[Product (recipe)], n))
  /\ g.held[t] = o /\ g.slot[o] = t /\ o \in Item /\ KindOf[o] = recipe.target /\ o = h.held[t]
  /\ recipe.consumes => n + 1 <= M

LEMMA MidUsed ==
  ASSUME ItemAssumption, InventoriesAssumption, NEW h, NEW D, NEW n, NEW t, NEW b, NEW recipe, NEW N, NEW M,
         Mixing (t, b, recipe, N, M), Mid (h, D, n, t, b, recipe, N, M), h.count[t] > 0, h.count[b] > 0
  PROVE  \E g, dd : /\ UseAgent (GetItem (GetItem (h, t), b), h.held[b], recipe) = [heap |-> g, dead |-> dd]
                    /\ Used (h, g, dd, h.held[t], n, D, t, b, recipe, N, M)
<1> DEFINE U == InUse \cup {Tmp}
           al == alive \ D
           md == Remade (made, recipe, n)
           o == h.held[t]
           a == h.held[b]
           T == recipe.target
           G == recipe.agent
           R == Product (recipe)
           x == N - n
           y == LeftOver (recipe, M, n)
           z == Least (StackOf[R], n)
           seen == GetItem (GetItem (h, t), b)
<1>1. /\ t \in Slot /\ b \in Slot /\ t # b /\ t # Tmp /\ b # Tmp /\ T \in Kinds /\ G \in Kinds /\ T # G
      /\ NotHeld (hand, T) /\ NotHeld (hand, G) /\ N \in Nat /\ M \in Nat /\ n \in 0 .. N /\ Tmp \in Slot
      /\ recipe.consumes \in BOOLEAN /\ (recipe.consumes => n <= M)
  BY DEF Mixing, Mid, Sound, InventoriesAssumption
<1>2. Fits (h, hand, al, md, U) /\ Has (h, t, T, x) /\ Has (h, b, G, y) /\ Has (h, Tmp, R, z)
  BY DEF Mid
<1>3. x \in Nat /\ y \in Nat /\ n \in Nat
  BY <1>1 DEF LeftOver
<1>4. Good (h)
  BY <1>2 DEF Fits
<1>5. StillHas (recipe, y) = LeftOver (recipe, M, n + 1)
  BY <1>1, <1>3 DEF StillHas, LeftOver
<1>6. y = (IF recipe.consumes THEN M - n ELSE M)
  BY DEF LeftOver
<1> HIDE DEF U, al, md, o, a, T, G, R, x, y, z, seen
<1>7. h.count[t] = x /\ o \in Item /\ KindOf[o] = T
  <2>1. /\ h.count[t] = x
        /\ x > 0 => h.held[t] \in Item /\ KindOf[h.held[t]] = T /\ h.held[t] # None
    BY <1>1, <1>2, <1>3, <1>4, HasIs
  <2>2. QED
    BY <2>1 DEF o
<1>8. h.count[b] = y /\ y > 0 /\ a \in Item /\ KindOf[a] = G
  <2>1. /\ h.count[b] = y
        /\ y > 0 => h.held[b] \in Item /\ KindOf[h.held[b]] = G /\ h.held[b] # None
    BY <1>1, <1>2, <1>3, <1>4, HasIs
  <2>2. QED
    BY <2>1 DEF a
<1>9. /\ Fits (seen, hand, al, md, U) /\ Good (seen) /\ seen.held = h.held /\ seen.count = h.count
      /\ seen.slot[o] = t /\ seen.slot[a] = b
  <2>1. o = h.held[t] /\ a = h.held[b] /\ seen = GetItem (GetItem (h, t), b)
    BY DEF o, a, seen
  <2>2. QED
    BY <2>1, <1>1, <1>2, <1>7, <1>8, SeenBoth
<1>10. Has (seen, t, T, x) /\ Has (seen, b, G, y) /\ Has (seen, Tmp, R, z)
  BY <1>2, <1>9, HasLike
<1>11. seen.held[t] = o /\ seen.held[b] = a
  BY <1>9 DEF o, a
<1>12. recipe.agent = KindOf[a] /\ Has (seen, b, recipe.agent, y)
  BY <1>8, <1>10 DEF G
<1>21. \E g, dd : /\ UseAgent (seen, a, recipe) = [heap |-> g, dead |-> dd] /\ dd \subseteq Mutable
                    /\ OnlyIn (seen, g, b)
                    /\ Fits (g, hand, al \ dd, Spent (md, recipe), U)
                    /\ Has (g, b, recipe.agent, StillHas (recipe, y))
  <2>1. b \in Slot /\ a \in Item /\ y \in Nat /\ seen.held[b] = a /\ seen.slot[a] = b /\ recipe.agent = KindOf[a]
        /\ Has (seen, b, recipe.agent, y) /\ Fits (seen, hand, al, md, U)
    BY <1>1, <1>3, <1>8, <1>9, <1>11, <1>12
  <2>2. QED
    BY <2>1, AgentUsed, ItemAssumption, InventoriesAssumption
<1>13. PICK g, dd : /\ UseAgent (seen, a, recipe) = [heap |-> g, dead |-> dd] /\ dd \subseteq Mutable
                    /\ OnlyIn (seen, g, b)
                    /\ Fits (g, hand, al \ dd, Spent (md, recipe), U)
                    /\ Has (g, b, recipe.agent, StillHas (recipe, y))
  BY <1>21
<1>14. Has (g, t, T, x)
  BY <1>1, <1>10, <1>13, HasOnlyIn
<1>15. Has (g, Tmp, R, z)
  BY <1>1, <1>10, <1>13, HasOnlyIn
<1>16. g.held[t] = o /\ g.slot[o] = t
  BY <1>1, <1>7, <1>9, <1>11, <1>13 DEF OnlyIn
<1>17. recipe.consumes => n + 1 <= M
  BY <1>1, <1>3, <1>6, <1>8
<1>18. Has (g, b, recipe.agent, LeftOver (recipe, M, n + 1))
  BY <1>5, <1>13
<1>19. Used (h, g, dd, o, n, D, t, b, recipe, N, M)
  BY <1>7, <1>13, <1>14, <1>15, <1>16, <1>17, <1>18 DEF Used, U, al, md, T, G, R, x, z, o
<1>20. QED
  BY <1>13, <1>19 DEF seen, o, a

LEMMA MidKept ==
  ASSUME ItemAssumption, InventoriesAssumption, NEW h, NEW D, NEW n \in Nat, NEW t, NEW b, NEW recipe, NEW N, NEW M,
         Mixing (t, b, recipe, N, M), n < N, recipe.result = Self,
         NEW g, NEW dd, NEW o, Used (h, g, dd, o, n, D, t, b, recipe, N, M),
         NEW e, e = AddItems (g, Tmp, o, 1).heap
  PROVE  Mid (e, D \cup dd, n + 1, t, b, recipe, N, M)
<1> DEFINE U == InUse \cup {Tmp}
           al == (alive \ D) \ dd
           md == Spent (Remade (made, recipe, n), recipe)
           T == recipe.target
           G == recipe.agent
           S == StackOf[T]
           x == N - n
           w == N - (n + 1)
           y == LeftOver (recipe, M, n + 1)
           m == Least (S, n)
           q == Least (S - m, 1)
<1>1. /\ t \in Slot /\ b \in Slot /\ t # b /\ t # Tmp /\ b # Tmp /\ T \in Kinds /\ G \in Kinds /\ T # G
      /\ N \in Nat /\ M \in Nat /\ N <= S /\ S \in Nat \ {0} /\ Tmp \in Slot /\ Product (recipe) = T
      /\ made \in [Kinds -> Nat] /\ Sound (recipe) /\ recipe.consumes \in BOOLEAN
  BY DEF Mixing, InventoriesAssumption, Product, Sound
<1>2. /\ Fits (g, hand, al, md, U) /\ Has (g, b, G, y) /\ Has (g, t, T, x) /\ Has (g, Tmp, T, m)
      /\ g.held[t] = o /\ g.slot[o] = t /\ o \in Item /\ KindOf[o] = T /\ (recipe.consumes => n + 1 <= M)
  BY <1>1 DEF Used
<1>3. /\ x \in Nat /\ x > 0 /\ y \in Nat /\ m = n /\ q = 1 /\ m \in Nat /\ m <= S /\ w = x - q
      /\ m + q = Least (S, n + 1) /\ MaxStack (o) = S /\ w \in Nat
  BY <1>1, <1>2 DEF Least, LeftOver, MaxStack
<1>4. Good (g) /\ g \in HeapType
  BY <1>2 DEF Fits, Good
<1>5. md = Remade (made, recipe, n + 1)
  BY <1>1, RemadeSelf
<1>6. n + 1 \in 0 .. N
  BY <1>1
<1>7. q = Least (MaxStack (o) - m, 1) /\ m <= MaxStack (o) /\ m + q = Least (StackOf[Product (recipe)], n + 1)
  BY <1>1, <1>3
<1>8. None \notin Slot /\ Tmp \in U
  BY DEF ItemAssumption, U
<1> HIDE DEF U, al, md, T, G, S, x, w, y, m, q
<1>9. g.count[t] = x
  BY <1>1, <1>2, <1>3, <1>4, HasIs
<1> DEFINE one == 1
<1>10. one <= g.count[t]
  BY <1>3, <1>9
<1> HIDE DEF one
<1>11. Source (g, o, one, t)
  BY <1>1, <1>2, <1>4, <1>10, SlotSource
<1>12. /\ q \in Nat /\ Good (e)
       /\ Moved (g, e, Tmp, t, T, q)
       /\ Has (e, Tmp, T, m + q)
       /\ Fits (e, hand, al, md, U)
  <2>1. Source (g, o, 1, t)
    BY <1>11 DEF one
  <2>2. t \in Slot \cup {None} /\ t # Tmp /\ t # None /\ T = KindOf[o]
    BY <1>1, <1>2, <1>8
  <2>3. /\ q = Least (MaxStack (o) - m, 1) /\ m <= MaxStack (o) /\ o \in Item /\ m \in Nat /\ Tmp \in U
        /\ Fits (g, hand, al, md, U) /\ Has (g, Tmp, T, m) /\ (o \in Mutable => t # None)
        /\ e = AddItems (g, Tmp, o, 1).heap
    BY <2>2, <1>2, <1>3, <1>7, <1>8
  <2>4. /\ q \in Nat /\ Good (e)
        /\ Moved (g, e, Tmp, t, T, q)
        /\ Has (e, Tmp, T, m + q)
        /\ IF t = None THEN Fits (e, hand, al, More (md, T, q), U) ELSE Fits (e, hand, al, md, U)
    BY <2>1, <2>2, <2>3, Produced
  <2>5. QED
    BY <2>2, <2>4
<1>13. Has (e, t, T, w)
  <2>1. /\ t \in Slot /\ Tmp # t /\ x \in Nat /\ q \in Nat /\ w = x - q /\ g \in HeapType
        /\ Moved (g, e, Tmp, t, T, q) /\ Has (g, t, T, x)
    BY <1>1, <1>2, <1>3, <1>4, <1>12
  <2>2. QED
    BY <2>1, HasLess
<1>14. Has (e, b, G, y)
  <2>1. /\ b \in Slot /\ b # Tmp /\ b # t /\ y \in Nat /\ q \in Nat /\ g \in HeapType
        /\ Moved (g, e, Tmp, t, T, q) /\ Has (g, b, G, y)
    BY <1>1, <1>2, <1>3, <1>4, <1>12
  <2>2. QED
    BY <2>1, HasBeside
<1>15. Has (e, Tmp, T, Least (StackOf[Product (recipe)], n + 1))
  <2> DEFINE p == m + q
             v == Least (StackOf[Product (recipe)], n + 1)
  <2>1. p = v /\ Has (e, Tmp, T, p)
    BY <1>7, <1>12
  <2> HIDE DEF p, v
  <2>2. Has (e, Tmp, T, v)
    BY <2>1
  <2>3. QED
    BY <2>2 DEF v
<1>16. al = alive \ (D \cup dd)
  BY DEF al
<1>17. Fits (e, hand, alive \ (D \cup dd), Remade (made, recipe, n + 1), U)
  BY <1>5, <1>12, <1>16
<1>18. QED
  BY <1>1, <1>2, <1>6, <1>13, <1>14, <1>15, <1>17 DEF Mid, T, G, w, y, U

\* Another item takes the place of the target.
ByAnother (g, o, dd, D, n, t, b, recipe, N, M) ==
  \E f, c :
    /\ Destroyed (FromStorage (g, recipe.result), o) = [heap |-> f, dead |-> c] /\ c \subseteq Mutable
    /\ Mid (AddItems (f, Tmp, recipe.result, 1).heap, D \cup (c \cup dd), n + 1, t, b, recipe, N, M)

LEMMA MidReplaced ==
  ASSUME ItemAssumption, InventoriesAssumption, NEW h, NEW D, NEW n \in Nat, NEW t, NEW b, NEW recipe, NEW N, NEW M,
         Mixing (t, b, recipe, N, M), n < N, recipe.result # Self,
         NEW g, NEW dd, NEW o, Used (h, g, dd, o, n, D, t, b, recipe, N, M)
  PROVE  ByAnother (g, o, dd, D, n, t, b, recipe, N, M)
<1> DEFINE U == InUse \cup {Tmp}
           al == (alive \ D) \ dd
           md == Spent (Remade (made, recipe, n), recipe)
           T == recipe.target
           G == recipe.agent
           R == recipe.result
           S == StackOf[R]
           x == N - n
           w == N - (n + 1)
           y == LeftOver (recipe, M, n + 1)
           m == Least (S, n)
           q == Least (S - m, 1)
<1>1. /\ t \in Slot /\ b \in Slot /\ t # b /\ t # Tmp /\ b # Tmp /\ T \in Kinds /\ G \in Kinds /\ T # G
      /\ N \in Nat /\ M \in Nat /\ S \in Nat \ {0} /\ Tmp \in Slot /\ Product (recipe) = R
      /\ R \in Shared /\ R # T
      /\ made \in [Kinds -> Nat] /\ Sound (recipe) /\ recipe.consumes \in BOOLEAN
  BY DEF Mixing, InventoriesAssumption, Product, Sound
<1>2. /\ Fits (g, hand, al, md, U) /\ Has (g, b, G, y) /\ Has (g, t, T, x) /\ Has (g, Tmp, R, m)
      /\ g.held[t] = o /\ g.slot[o] = t /\ o \in Item /\ KindOf[o] = T /\ (recipe.consumes => n + 1 <= M)
  BY <1>1 DEF Used
<1>3. OneMore (S, n, m, q)
  BY DEF OneMore
<1>4. /\ m \in Nat /\ q \in Nat /\ m <= S /\ m + q = Least (S, n + 1)
  BY <1>1, <1>3, LeastNext DEF Grows
<1>5. x \in Nat /\ y \in Nat /\ w = x - 1 /\ w \in Nat
  BY <1>1, <1>2 DEF LeftOver
<1>6. None \notin Slot /\ Tmp \in U /\ None # Tmp /\ R \in Item /\ R \notin Mutable /\ KindOf[R] = R /\ MaxStack (R) = S
  BY <1>1 DEF ItemAssumption, Item, MaxStack
<1>7. n + 1 \in 0 .. N
  BY <1>1
<1>8. More (Fewer (md, T, 1), R, q) = Remade (made, recipe, n + 1)
  <2>1. /\ recipe.result # Self /\ S = StackOf[recipe.result] /\ OneMore (S, n, m, q) /\ Grows (S, n, m, q)
        /\ made \in [Kinds -> Nat] /\ Sound (recipe) /\ recipe.result # recipe.target
    BY <1>1, <1>3, LeastNext
  <2> HIDE DEF S, m, q
  <2>2. Renewed (made, recipe, n, q)
    BY <2>1, RemadeOther
  <2>3. QED
    BY <2>2 DEF Renewed
<1>9. q = Least (MaxStack (R) - m, 1) /\ Least (StackOf[Product (recipe)], n + 1) = Least (S, n + 1)
  BY <1>1, <1>6
<1> HIDE DEF U, al, md, T, G, R, S, x, w, y, m, q
<1>10. PICK f, c :
          /\ Destroyed (FromStorage (g, R), o) = [heap |-> f, dead |-> c] /\ c \subseteq Mutable
          /\ Keeps (g, f, t)
          /\ Fits (f, hand, al \ c, Fewer (md, T, 1), U)
          /\ Has (f, t, T, w)
          /\ f.slot[R] = None
  <2>1. T = KindOf[o] /\ R # T
    BY <1>1, <1>2
  <2>2. \E f, c : /\ Traded (g, f, c, R, o, t)
                  /\ Fits (f, hand, al \ c, Fewer (md, T, 1), U)
                  /\ Has (f, t, T, w)
    <3>1. /\ Fits (g, hand, al, md, U) /\ t \in Slot /\ o \in Item /\ g.held[t] = o /\ g.slot[o] = t /\ R \in Shared
          /\ x \in Nat /\ Has (g, t, T, x) /\ w = x - 1
      BY <1>1, <1>2, <1>5
    <3>2. QED
      BY <2>1, <3>1, TargetReplaced
  <2>3. QED
    BY <2>2 DEF Traded
<1>11. Has (f, b, G, y) /\ Has (f, Tmp, R, m) /\ f \in HeapType
  BY <1>1, <1>2, <1>10 DEF Fits, Good, Keeps
<1> DEFINE e == AddItems (f, Tmp, R, 1).heap
           nd == Fewer (md, T, 1)
           be == al \ c
<1>12. Source (f, R, 1, None)
  BY <1>6, <1>10 DEF Source
<1>13. Fits (f, hand, be, nd, U)
  BY <1>10
<1>14. e = AddItems (f, Tmp, R, 1).heap
  OBVIOUS
<1> HIDE DEF e, nd, be
<1>15. /\ Moved (f, e, Tmp, None, R, q)
       /\ Has (e, Tmp, R, m + q)
       /\ Fits (e, hand, be, More (nd, R, q), U)
  <2> DEFINE u == None
  <2>1. /\ u \in Slot \cup {None} /\ u # Tmp /\ Source (f, R, 1, u) /\ (R \in Mutable => u # None) /\ R = KindOf[R]
        /\ q = Least (MaxStack (R) - m, 1) /\ m <= MaxStack (R) /\ R \in Item /\ m \in Nat /\ Tmp \in U
    BY <1>4, <1>6, <1>9, <1>12
  <2>2. u = None
    OBVIOUS
  <2> HIDE DEF u
  <2>3. /\ q \in Nat /\ Good (e)
        /\ Moved (f, e, Tmp, u, R, q)
        /\ Has (e, Tmp, R, m + q)
        /\ IF u = None THEN Fits (e, hand, be, More (nd, R, q), U) ELSE Fits (e, hand, be, nd, U)
    BY <2>1, <1>11, <1>13, <1>14, Produced
  <2>4. QED
    BY <2>2, <2>3
<1>16. Has (e, t, T, w)
  <2>1. t \in Slot /\ t # Tmp /\ t # None /\ w \in Nat /\ q \in Nat /\ f \in HeapType /\ Moved (f, e, Tmp, None, R, q) /\ Has (f, t, T, w)
    BY <1>1, <1>4, <1>5, <1>6, <1>10, <1>11, <1>15
  <2>2. QED
    BY <2>1, HasBeside
<1>17. Has (e, b, G, y)
  <2>1. b \in Slot /\ b # Tmp /\ b # None /\ y \in Nat /\ q \in Nat /\ f \in HeapType /\ Moved (f, e, Tmp, None, R, q) /\ Has (f, b, G, y)
    BY <1>1, <1>4, <1>5, <1>6, <1>11, <1>15
  <2>2. QED
    BY <2>1, HasBeside
<1>18. Has (e, Tmp, R, Least (StackOf[Product (recipe)], n + 1))
  <2> DEFINE p == m + q
             v == Least (StackOf[Product (recipe)], n + 1)
  <2>1. p = v /\ Has (e, Tmp, R, p)
    BY <1>4, <1>9, <1>15
  <2> HIDE DEF p, v
  <2>2. Has (e, Tmp, R, v)
    BY <2>1
  <2>3. QED
    BY <2>2 DEF v
<1>19. be = alive \ (D \cup (c \cup dd))
  BY DEF be, al
<1>20. Fits (e, hand, alive \ (D \cup (c \cup dd)), Remade (made, recipe, n + 1), U)
  BY <1>8, <1>15, <1>19 DEF nd
<1>21. Mid (e, D \cup (c \cup dd), n + 1, t, b, recipe, N, M)
  <2>1. Has (e, Tmp, Product (recipe), Least (StackOf[Product (recipe)], n + 1))
    BY <1>1, <1>18
  <2>2. QED
    BY <1>2, <1>7, <1>16, <1>17, <2>1, <1>20 DEF Mid, T, G, w, y, U
<1>22. QED
  BY <1>10, <1>21 DEF e, R, Traded, ByAnother

\* What the loop of inventory::combine may come to.
Mids (t, b, recipe, N, M) ==
  {acc \in [heap : HeapType, dead : SUBSET Mutable, n : Nat] :
     Mid (acc.heap, acc.dead, acc.n, t, b, recipe, N, M)}

MidOf (h, D, n) == [heap |-> h, dead |-> D, n |-> n]

LEMMA MidIn ==
  ASSUME NEW h, NEW D \in SUBSET Mutable, NEW n \in Nat, NEW t, NEW b, NEW recipe, NEW N, NEW M,
         Mid (h, D, n, t, b, recipe, N, M), NEW acc, acc = MidOf (h, D, n)
  PROVE  /\ acc \in Mids (t, b, recipe, N, M)
         /\ acc.n = n
<1>1. h \in HeapType
  BY DEF Mid, Fits, Good
<1>2. acc \in [heap : HeapType, dead : SUBSET Mutable, n : Nat] /\ acc.heap = h /\ acc.dead = D /\ acc.n = n
  BY <1>1 DEF MidOf
<1>3. QED
  BY <1>2 DEF Mids

\* No more can be combined: the target or the agent is used up.
AtEnd (recipe, n, N, M) == n = N \/ (recipe.consumes /\ n = M)

LEMMA MidStep ==
  ASSUME ItemAssumption, InventoriesAssumption, NEW t, NEW b, NEW recipe, NEW N, NEW M,
         Mixing (t, b, recipe, N, M), NEW acc \in Mids (t, b, recipe, N, M),
         NEW e, e = CombineNext (acc, t, b, recipe)
  PROVE  /\ e \in Mids (t, b, recipe, N, M)
         /\ IF acc.heap.count[t] > 0 /\ acc.heap.count[b] > 0 THEN e.n = acc.n + 1
            ELSE e = acc /\ AtEnd (recipe, acc.n, N, M)
<1> DEFINE h == acc.heap
           D == acc.dead
           n == acc.n
           go == h.count[t] > 0 /\ h.count[b] > 0
<1>1. h \in HeapType /\ D \in SUBSET Mutable /\ n \in Nat /\ Mid (h, D, n, t, b, recipe, N, M)
  BY DEF Mids
<1>2. /\ t \in Slot /\ b \in Slot /\ recipe.target \in Kinds /\ recipe.agent \in Kinds /\ N \in Nat /\ M \in Nat \ {0}
      /\ recipe.consumes \in BOOLEAN
  BY DEF Mixing, Sound
<1>3. /\ Good (h) /\ n \in 0 .. N /\ (recipe.consumes => n <= M)
      /\ Has (h, t, recipe.target, N - n) /\ Has (h, b, recipe.agent, LeftOver (recipe, M, n))
  BY <1>1 DEF Mid, Fits
<1> DEFINE x == N - n
           y == LeftOver (recipe, M, n)
<1>4. x \in Nat /\ y \in Nat
  BY <1>2, <1>3 DEF LeftOver
<1> HIDE DEF x, y
<1>5. h.count[t] = x /\ h.count[b] = y
  <2>1. Has (h, t, recipe.target, x) /\ Has (h, b, recipe.agent, y)
    BY <1>3 DEF x, y
  <2> HIDE DEF h
  <2>2. h.count[t] = x
    BY <2>1, <1>2, <1>3, <1>4, HasIs
  <2>3. h.count[b] = y
    BY <2>1, <1>2, <1>3, <1>4, HasIs
  <2>4. QED
    BY <2>2, <2>3
<1>6. CASE ~ go
  <2>1. e = acc
    BY <1>6 DEF CombineNext
  <2>2. x = 0 \/ y = 0
    BY <1>4, <1>5, <1>6
  <2>3. AtEnd (recipe, n, N, M)
    BY <2>2, <1>2, <1>3 DEF AtEnd, x, y, LeftOver
  <2>4. QED
    BY <1>6, <2>1, <2>3
<1>7. CASE go
  <2>1. e = CombineOne (acc, t, b, recipe)
    BY <1>7 DEF CombineNext
  <2>2. n < N
    BY <1>2, <1>3, <1>5, <1>7 DEF x
  <2> DEFINE o == h.held[t]
             a == h.held[b]
             seen == GetItem (GetItem (h, t), b)
  <2>3. PICK g, dd : UseAgent (seen, a, recipe) = [heap |-> g, dead |-> dd] /\ Used (h, g, dd, o, n, D, t, b, recipe, N, M)
    <3> HIDE DEF h, D, n
    <3>1. h.count[t] > 0 /\ h.count[b] > 0
      BY <1>7
    <3>2. QED
      BY <1>1, <3>1, MidUsed
  <2>4. dd \subseteq Mutable
    BY <2>3 DEF Used
  <2>5. o = acc.heap.held[t] /\ a = acc.heap.held[b] /\ seen = GetItem (GetItem (acc.heap, t), b)
    OBVIOUS
  <2> HIDE DEF o, a, seen
  <2>6. CASE recipe.result = Self
    <3> DEFINE f == AddItems (g, Tmp, o, 1).heap
               E == D \cup dd
               m == n + 1
    <3>1. Mid (f, E, m, t, b, recipe, N, M)
      <4>1. f = AddItems (g, Tmp, o, 1).heap
        OBVIOUS
      <4> HIDE DEF f, D, n, h
      <4>2. Mid (f, D \cup dd, n + 1, t, b, recipe, N, M)
        BY <1>1, <2>2, <2>3, <2>6, <4>1, MidKept
      <4>3. QED
        BY <4>2
    <3>2. E \in SUBSET Mutable /\ m \in Nat /\ f = AddItems (g, Tmp, o, 1).heap
      BY <1>1, <2>4
    <3>3. e = MidOf (f, E, m)
      <4> HIDE DEF f
      <4>1. CombineOne (acc, t, b, recipe) = [heap |-> f, dead |-> acc.dead \cup dd, n |-> acc.n + 1]
        BY <2>3, <2>5, <2>6, <3>2, CombineKeeps
      <4>2. QED
        BY <2>1, <4>1 DEF MidOf
    <3> HIDE DEF f, E, m
    <3>4. e \in Mids (t, b, recipe, N, M) /\ e.n = m
      BY <3>1, <3>2, <3>3, MidIn
    <3>5. QED
      BY <1>7, <3>4 DEF m
  <2>7. CASE recipe.result # Self
    <3>1. PICK f1, c : /\ Destroyed (FromStorage (g, recipe.result), o) = [heap |-> f1, dead |-> c]
                       /\ c \subseteq Mutable
                       /\ Mid (AddItems (f1, Tmp, recipe.result, 1).heap, D \cup (c \cup dd), n + 1, t, b, recipe, N, M)
      <4> HIDE DEF D, n, h
      <4>1. ByAnother (g, o, dd, D, n, t, b, recipe, N, M)
        BY <1>1, <2>2, <2>3, <2>7, MidReplaced
      <4>2. QED
        BY <4>1 DEF ByAnother
    <3> DEFINE f == AddItems (f1, Tmp, recipe.result, 1).heap
               E == D \cup (c \cup dd)
               m == n + 1
    <3>2. E \in SUBSET Mutable /\ m \in Nat /\ f = AddItems (f1, Tmp, recipe.result, 1).heap
      BY <1>1, <2>4, <3>1
    <3>3. e = MidOf (f, E, m)
      <4> HIDE DEF f
      <4>1. CombineOne (acc, t, b, recipe) = [heap |-> f, dead |-> acc.dead \cup (c \cup dd), n |-> acc.n + 1]
        BY <2>3, <2>5, <2>7, <3>1, <3>2, CombineReplaces
      <4>2. QED
        BY <2>1, <4>1 DEF MidOf
    <3>4. Mid (f, E, m, t, b, recipe, N, M)
      BY <3>1
    <3> HIDE DEF f, E, m
    <3>5. e \in Mids (t, b, recipe, N, M) /\ e.n = m
      BY <3>2, <3>3, <3>4, MidIn
    <3>6. QED
      BY <1>7, <3>5 DEF m
  <2>8. QED
    BY <2>6, <2>7
<1>8. QED
  BY <1>6, <1>7

MixAll (b, list, t, a, recipe) == FoldLeft (LAMBDA acc, j : CombineNext (acc, t, a, recipe), b, list)

\* The loop of inventory::combine as a run.
MixAllIn (A, list, t, a, recipe) == \A j \in 1 .. Len (list), d \in A : CombineNext (d, t, a, recipe) \in A

MixAllRun (run, A, b, list, t, a, recipe) ==
  /\ run[0] = b /\ run[Len (list)] = MixAll (b, list, t, a, recipe)
  /\ \A j \in 1 .. Len (list) : run[j - 1] \in A /\ run[j] = CombineNext (run[j - 1], t, a, recipe)

LEMMA CombinedRuns ==
  ASSUME NEW S, NEW list, list \in Seq (S), NEW A, NEW b, b \in A, NEW t, NEW a, NEW recipe, MixAllIn (A, list, t, a, recipe)
  PROVE  /\ MixAll (b, list, t, a, recipe) \in A
         /\ \E run : MixAllRun (run, A, b, list, t, a, recipe)
<1> DEFINE l == Len (list)
           F == [p \in (1 .. l) \X A |-> CombineNext (p[2], t, a, recipe)]
           At (g, x) == IF x = {} THEN b ELSE CombineNext (g[x \ {Max (x)}], t, a, recipe)
           Step (g) == [x \in SUBSET (1 .. l) |-> At (g, x)]
           iter == CHOOSE g : g = Step (g)
           r == MixAll (b, list, t, a, recipe)
<1>1. l \in Nat /\ DOMAIN list = 1 .. l
  BY LenProperties
<1>2. r = iter[1 .. l]
  BY <1>1 DEF MixAll, FoldLeft, MapThenFoldSet, Max
<1>3. \A j \in 1 .. l, d \in A : CombineNext (d, t, a, recipe) \in A
  BY DEF MixAllIn
<1> HIDE DEF l, r
<1>4. /\ F \in [(1 .. l) \X A -> A]
      /\ \A j \in 1 .. l, d \in A : F[<<j, d>>] = CombineNext (d, t, a, recipe)
  BY <1>1, <1>3
<1> HIDE DEF F
<1>5. /\ \E g \in [SUBSET (1 .. l) -> A] : IsFold (g, l, b, F)
      /\ \A x \in SUBSET (1 .. l) : x # {} => Max (x) \in 1 .. l /\ x \ {Max (x)} \in SUBSET (1 .. l)
  BY <1>1, <1>4, FoldGoesOn
<1>6. PICK g \in [SUBSET (1 .. l) -> A] : IsFold (g, l, b, F)
  BY <1>5
<1>7. \A x \in SUBSET (1 .. l) : iter[x] = At (iter, x)
  <2>1. \A x \in SUBSET (1 .. l) : g[x] = At (g, x)
    BY <1>4, <1>5, <1>6 DEF IsFold
  <2> HIDE DEF At
  <2>2. g = Step (g)
    BY <2>1
  <2> HIDE DEF Step
  <2>3. iter = Step (iter)
    BY <2>2
  <2> HIDE DEF iter
  <2>4. QED
    BY <2>3 DEF Step
<1> HIDE DEF iter
<1>8. Iterates (iter, l, A, b, F)
  BY <1>4, <1>5, <1>7 DEF Iterates
<1>9. PICK run \in [0 .. l -> A] : run[l] = iter[1 .. l] /\ IsRun (run, l, b, F)
  BY <1>1, <1>4, <1>8, FoldRuns
<1>10. \A j \in 1 .. l : run[j - 1] \in A /\ run[j] = CombineNext (run[j - 1], t, a, recipe)
  <2>1. \A j \in 1 .. l : j - 1 \in 0 .. l
    BY <1>1
  <2>2. \A j \in 1 .. l : run[j - 1] \in A
    BY <2>1
  <2>3. \A j \in 1 .. l : run[j] = F[<<j, run[j - 1]>>]
    BY <1>9 DEF IsRun
  <2>4. QED
    BY <1>4, <2>2, <2>3
<1>11. run[0] = b
  BY <1>9 DEF IsRun
<1>12. run[l] \in A
  <2>1. l \in 0 .. l
    BY <1>1
  <2>2. QED
    BY <2>1, <1>9
<1>13. QED
  BY <1>2, <1>9, <1>10, <1>11, <1>12 DEF l, r, MixAllRun

LEMMA CombineAllIs ==
  ASSUME ItemAssumption, InventoriesAssumption, NEW t, NEW b, NEW recipe, NEW N, NEW M,
         Mixing (t, b, recipe, N, M), Mid (heap, {}, 0, t, b, recipe, N, M), N = heap.count[t],
         NEW c, c = CombineAll (t, b, recipe)
  PROVE  c \in Mids (t, b, recipe, N, M) /\ AtEnd (recipe, c.n, N, M)
<1> DEFINE list == [j \in 1 .. N |-> j]
           A == Mids (t, b, recipe, N, M)
           none == {}
           zero == 0
           start == MidOf (heap, none, zero)
<1>1. N \in Nat
  BY DEF Mixing
<1>2. list \in Seq (Nat) /\ Len (list) = N
  <2>1. list \in [1 .. N -> Nat]
    OBVIOUS
  <2>2. QED
    BY <1>1, <2>1, SeqDef, LenProperties
<1>3. start \in A /\ start.n = 0
  <2>1. none \in SUBSET Mutable /\ zero \in Nat /\ Mid (heap, none, zero, t, b, recipe, N, M) /\ zero = 0
    OBVIOUS
  <2> HIDE DEF none, zero
  <2>2. start = MidOf (heap, none, zero)
    OBVIOUS
  <2> HIDE DEF start
  <2>3. start \in Mids (t, b, recipe, N, M) /\ start.n = zero
    BY <2>1, <2>2, MidIn
  <2>4. QED
    BY <2>1, <2>3
<1>4. c = MixAll (start, list, t, b, recipe)
  BY DEF CombineAll, MixAll, MidOf
<1> HIDE DEF list, start
<1>5. ASSUME NEW d \in A
      PROVE  /\ CombineNext (d, t, b, recipe) \in A
             /\ IF d.heap.count[t] > 0 /\ d.heap.count[b] > 0 THEN CombineNext (d, t, b, recipe).n = d.n + 1
                ELSE CombineNext (d, t, b, recipe) = d /\ AtEnd (recipe, d.n, N, M)
  <2> DEFINE e == CombineNext (d, t, b, recipe)
  <2>1. e = CombineNext (d, t, b, recipe)
    OBVIOUS
  <2> HIDE DEF e
  <2>2. /\ e \in Mids (t, b, recipe, N, M)
        /\ IF d.heap.count[t] > 0 /\ d.heap.count[b] > 0 THEN e.n = d.n + 1
           ELSE e = d /\ AtEnd (recipe, d.n, N, M)
    BY <1>5, <2>1, MidStep
  <2>3. QED
    BY <2>1, <2>2
<1>6. \A d \in A : d.n \in 0 .. N /\ (recipe.consumes => d.n <= M) /\ d.n \in Nat
  BY DEF Mids, Mid
<1> HIDE DEF A
<1>7. MixAllIn (A, list, t, b, recipe)
  BY <1>5 DEF MixAllIn
<1>8. \E run : MixAllRun (run, A, start, list, t, b, recipe)
  BY <1>2, <1>3, <1>7, CombinedRuns
<1>9. MixAll (start, list, t, b, recipe) \in A
  BY <1>2, <1>3, <1>7, CombinedRuns
<1>10. PICK run : MixAllRun (run, A, start, list, t, b, recipe)
  BY <1>8
<1>11. /\ run[0] = start /\ run[N] = c
       /\ \A j \in 1 .. N : run[j - 1] \in A /\ run[j] = CombineNext (run[j - 1], t, b, recipe)
  BY <1>2, <1>4, <1>10 DEF MixAllRun
<1> DEFINE T == {j \in 0 .. N : run[j].n = j \/ AtEnd (recipe, run[j].n, N, M)}
<1>12. 0 \in T
  BY <1>1, <1>3, <1>11
<1>13. \A j \in 1 .. N : j - 1 \in T => j \in T
  <2>1. SUFFICES ASSUME NEW j \in 1 .. N, j - 1 \in T PROVE j \in T
    OBVIOUS
  <2> DEFINE d == run[j - 1]
             e == run[j]
  <2>2. d \in A /\ e = CombineNext (d, t, b, recipe) /\ (d.n = j - 1 \/ AtEnd (recipe, d.n, N, M))
    BY <1>11, <2>1
  <2> HIDE DEF d, e
  <2>3. /\ e \in A
        /\ e.n = d.n + 1 \/ (e = d /\ AtEnd (recipe, d.n, N, M))
    BY <1>5, <2>2
  <2>4. e.n = j \/ AtEnd (recipe, e.n, N, M)
    <3>1. CASE e.n = d.n + 1 /\ d.n = j - 1
      BY <1>1, <3>1
    <3>2. CASE e.n = d.n + 1 /\ AtEnd (recipe, d.n, N, M)
      <4>1. d.n \in Nat /\ e.n \in 0 .. N /\ (recipe.consumes => e.n <= M)
        BY <1>6, <2>2, <2>3
      <4>2. d.n = N \/ (recipe.consumes /\ d.n = M)
        BY <3>2 DEF AtEnd
      <4>3. M \in Nat
        BY DEF Mixing
      <4>4. QED
        BY <1>1, <3>2, <4>1, <4>2, <4>3
    <3>3. CASE e = d /\ AtEnd (recipe, d.n, N, M)
      BY <3>3
    <3>4. QED
      BY <2>2, <2>3, <3>1, <3>2, <3>3
  <2>5. QED
    BY <1>1, <2>4 DEF e
<1> HIDE DEF T
<1>14. \A j \in 0 .. N : j \in T
  BY <1>1, <1>12, <1>13, StepByStep
<1>15. N \in T
  BY <1>1, <1>14
<1>16. c.n = N \/ AtEnd (recipe, c.n, N, M)
  BY <1>11, <1>15 DEF T
<1>17. QED
  BY <1>4, <1>9, <1>16 DEF AtEnd, A

LEMMA RemadeNone ==
  ASSUME InventoriesAssumption, NEW md, md \in [Kinds -> Nat], NEW recipe, Sound (recipe)
  PROVE  Remade (md, recipe, 0) = md
<1> DEFINE zero == 0
           a == Remade (md, recipe, zero)
<1>1. ASSUME NEW k \in Kinds PROVE a[k] = md[k]
  <2>1. UsedUp (recipe, k, zero) = 0 /\ Replaced (recipe, k, zero) = 0
    BY DEF UsedUp, Replaced
  <2>2. GotBy (recipe, k, zero) = 0
    <3>1. CASE k = recipe.result
      <4>1. recipe.result # Self
        BY <3>1, SelfIsNoKind
      <4>2. StackOf[recipe.result] \in Nat \ {0}
        BY <4>1 DEF Sound
      <4>3. QED
        BY <4>2 DEF GotBy, Least
    <3>2. QED
      BY <3>1 DEF GotBy
  <2>3. zero \in Nat
    OBVIOUS
  <2> HIDE DEF zero
  <2>4. a[k] = md[k] - UsedUp (recipe, k, zero) - Replaced (recipe, k, zero) + GotBy (recipe, k, zero) /\ md[k] \in Nat
    BY <2>3, RemadeIs
  <2>5. QED
    BY <2>1, <2>2, <2>4
<1>2. a = [k \in Kinds |-> a[k]]
  BY DEF Remade
<1> HIDE DEF a
<1>3. a = md
  BY <1>1, <1>2
<1>4. QED
  BY <1>3 DEF a

\* When inventory::combine is called.
Begun (t, b, recipe, N, M) == Mixing (t, b, recipe, N, M) /\ Mid (heap, {}, 0, t, b, recipe, N, M)

LEMMA CombineBegins ==
  ASSUME ItemAssumption, InventoriesAssumption, Careful, IInv, NEW i \in Inventory, NEW b \in InUse, NEW recipe \in Recipes,
         NEW t \in SlotsOf (i), Combine (i, t, b, recipe),
         NEW N, N = heap.count[t], NEW M, M = heap.count[b]
  PROVE  Begun (t, b, recipe, N, M)
<1> DEFINE T == recipe.target
           G == recipe.agent
           R == recipe.result
           o == heap.held[t]
           a == heap.held[b]
           U == InUse \cup {Tmp}
<1>1. /\ t # b /\ o # None /\ KindOf[o] = T /\ a # None /\ KindOf[a] = G
      /\ MayLook (t) /\ MayLook (b) /\ hand.item # R
  BY DEF Combine
<1>2. /\ Fits (heap, hand, alive, made, InUse) /\ Good (heap) /\ EmptyOutside (heap, InUse)
      /\ made \in [Kinds -> Nat] /\ InUse \subseteq Slot \ {Tmp} /\ slots \in [Inventory -> Seq (Slot \ {Tmp})]
  BY InOrder
<1>3. t \in InUse
  BY <1>2, UseIs
<1>4. t \in Slot /\ b \in Slot /\ t # Tmp /\ b # Tmp /\ Tmp \in Slot /\ Tmp \notin InUse
  BY <1>2, <1>3 DEF InventoriesAssumption
<1>5. /\ o \in Item /\ N \in Nat \ {0} /\ N <= MaxStack (o)
      /\ a \in Item /\ M \in Nat \ {0}
  <2>1. /\ heap.held[t] \in Item \cup {None} /\ heap.count[t] \in Nat
        /\ heap.held[t] = None <=> heap.count[t] = 0
        /\ heap.held[t] # None => heap.count[t] <= MaxStack (heap.held[t])
    BY <1>2, <1>4, GoodSlot
  <2>2. /\ heap.held[b] \in Item \cup {None} /\ heap.count[b] \in Nat
        /\ heap.held[b] = None <=> heap.count[b] = 0
    BY <1>2, <1>4, GoodSlot
  <2>3. QED
    BY <1>1, <2>1, <2>2
<1>6. T \in Kinds /\ G \in Kinds
  BY <1>1, <1>5 DEF Kinds
<1>7. T # G /\ R # T
  BY DEF Careful, RecipesFit
<1>8. recipe.consumes \in BOOLEAN /\ (R # Self => R \in Shared)
  BY DEF InventoriesAssumption, Self
<1>9. Sound (recipe)
  <2>1. R # Self => StackOf[R] \in Nat \ {0}
    BY <1>8 DEF ItemAssumption
  <2>2. QED
    BY <1>8, <2>1 DEF Sound
<1>10. NotHeld (hand, T)
  <2>1. ASSUME T \in Shared PROVE hand.item # T
    <3>1. KindOf[o] \in Shared
      BY <1>1, <2>1
    <3> HIDE DEF o
    <3>2. o \in Shared /\ o = KindOf[o]
      BY <1>5, <3>1, KindShared
    <3>3. QED
      BY <1>1, <3>2 DEF MayLook, Careful, o
  <2>2. QED
    BY <2>1 DEF NotHeld
<1>11. NotHeld (hand, G)
  <2>1. ASSUME G \in Shared PROVE hand.item # G
    <3>1. KindOf[a] \in Shared
      BY <1>1, <2>1
    <3> HIDE DEF a
    <3>2. a \in Shared /\ a = KindOf[a]
      BY <1>5, <3>1, KindShared
    <3>3. QED
      BY <1>1, <3>2 DEF MayLook, Careful, a
  <2>2. QED
    BY <2>1 DEF NotHeld
<1>12. StackOf[T] = MaxStack (o) /\ StackOf[T] \in Nat \ {0}
  BY <1>1, <1>5 DEF MaxStack, ItemAssumption, Item
<1>13. Mixing (t, b, recipe, N, M)
  BY <1>1, <1>2, <1>4, <1>5, <1>6, <1>7, <1>8, <1>9, <1>10, <1>11, <1>12 DEF Mixing
<1>14. Has (heap, t, T, N - 0)
  <2>1. N - 0 = N
    BY <1>5
  <2>2. Has (heap, t, KindOf[heap.held[t]], heap.count[t])
    BY <1>1, HasWhat
  <2>3. QED
    BY <1>1, <2>1, <2>2
<1>15. Has (heap, b, G, LeftOver (recipe, M, 0))
  <2>1. LeftOver (recipe, M, 0) = M
    BY <1>5 DEF LeftOver
  <2>2. Has (heap, b, KindOf[heap.held[b]], heap.count[b])
    BY <1>1, HasWhat
  <2>3. QED
    BY <1>1, <2>1, <2>2
<1>16. Has (heap, Tmp, Product (recipe), Least (StackOf[Product (recipe)], 0))
  <2>1. heap.count[Tmp] = 0
    BY <1>2, <1>4 DEF EmptyOutside
  <2>2. StackOf[Product (recipe)] \in Nat \ {0}
    BY <1>9, <1>12 DEF Product, Sound
  <2>3. Least (StackOf[Product (recipe)], 0) = 0
    BY <2>2 DEF Least
  <2>4. Has (heap, Tmp, Product (recipe), 0)
    BY <1>2, <1>4, <2>1, HasNothing
  <2>5. QED
    BY <2>3, <2>4
<1>17. Fits (heap, hand, alive \ {}, Remade (made, recipe, 0), U)
  <2> DEFINE al == alive \ {}
             md == Remade (made, recipe, 0)
  <2>1. al = alive
    OBVIOUS
  <2>2. md = made
    BY <1>2, <1>9, RemadeNone
  <2>3. InUse \subseteq U
    OBVIOUS
  <2> HIDE DEF al, md, U
  <2>4. EmptyOutside (heap, U)
    BY <1>2, <2>3, OutsideLess
  <2>5. Fits (heap, hand, al, md, U)
    BY <1>2, <2>1, <2>2, <2>4 DEF Fits
  <2>6. QED
    BY <2>5 DEF al, md
<1>18. 0 \in 0 .. N /\ 0 <= M
  BY <1>5
<1>19. Mid (heap, {}, 0, t, b, recipe, N, M)
  BY <1>14, <1>15, <1>16, <1>17, <1>18 DEF Mid
<1>20. QED
  BY <1>13, <1>19 DEF Begun

\* What is so when the items o in the temporary slot are about to go back.
Ripe (h, o, D, n, t, recipe, N) ==
  /\ Fits (h, hand, alive \ D, Remade (made, recipe, n), InUse \cup {Tmp})
  /\ n \in 1 .. N
  /\ o \in Item /\ KindOf[o] = Product (recipe) /\ MaxStack (o) \in Nat \ {0}
  /\ h.held[Tmp] = o /\ h.slot[o] = Tmp /\ h.count[Tmp] = Least (MaxStack (o), n)
  /\ Has (h, Tmp, Product (recipe), Least (MaxStack (o), n))
  /\ Has (h, t, recipe.target, N - n)

LEMMA RipeIs ==
  ASSUME ItemAssumption, InventoriesAssumption, NEW t, NEW b, NEW recipe, NEW N, NEW M, Mixing (t, b, recipe, N, M),
         NEW c, c \in Mids (t, b, recipe, N, M), NEW n, n = c.n, AtEnd (recipe, n, N, M),
         NEW o, o = c.heap.held[Tmp]
  PROVE  Ripe (GetItem (c.heap, Tmp), o, c.dead, n, t, recipe, N)
<1> DEFINE h == c.heap
           D == c.dead
           U == InUse \cup {Tmp}
           R == Product (recipe)
           S == StackOf[R]
           l == Least (S, n)
           x == N - n
           al == alive \ D
           md == Remade (made, recipe, n)
           g == GetItem (h, Tmp)
<1>1. Mid (h, D, n, t, b, recipe, N, M)
  BY DEF Mids
<1>2. Fits (h, hand, al, md, U) /\ Has (h, t, recipe.target, x) /\ Has (h, Tmp, R, l) /\ n \in 0 .. N
  BY <1>1 DEF Mid
<1>3. /\ N \in Nat \ {0} /\ M \in Nat \ {0} /\ NotHeld (hand, recipe.target) /\ hand.item # recipe.result
      /\ Sound (recipe) /\ recipe.target \in Kinds /\ StackOf[recipe.target] \in Nat \ {0}
      /\ (recipe.result # Self => recipe.result \in Shared)
  BY DEF Mixing
<1>4. n \in 1 .. N
  BY <1>2, <1>3 DEF AtEnd
<1>5. S \in Nat \ {0} /\ R \in Kinds /\ Tmp \in Slot
  <2>1. recipe.result # Self => recipe.result \in Kinds
    BY <1>3 DEF ItemAssumption, Kinds, Item
  <2>2. QED
    BY <1>3, <2>1 DEF Sound, Product, InventoriesAssumption
<1>6. l \in Nat /\ l > 0
  BY <1>3, <1>4, <1>5 DEF Least
<1>7. Good (h)
  BY <1>2 DEF Fits
<1> HIDE DEF h, D, U, R, S, l, x, al, md
<1>8. h.count[Tmp] = l /\ h.held[Tmp] \in Item /\ KindOf[h.held[Tmp]] = R /\ h.held[Tmp] # None
  BY <1>2, <1>5, <1>6, <1>7, HasIs
<1>9. o \in Item /\ KindOf[o] = R /\ o = h.held[Tmp] /\ o # None /\ S = MaxStack (o)
  BY <1>8 DEF h, S, MaxStack
<1>10. o \in Shared => o # hand.item
  <2>1. SUFFICES ASSUME o \in Shared PROVE o # hand.item
    OBVIOUS
  <2>2. o = R
    BY <1>9, <2>1 DEF ItemAssumption
  <2>3. CASE recipe.result = Self
    BY <1>3, <2>1, <2>2, <2>3 DEF R, Product, NotHeld
  <2>4. CASE recipe.result # Self
    BY <1>3, <2>1, <2>2, <2>4 DEF R, Product
  <2>5. QED
    BY <2>3, <2>4
<1>11. /\ Fits (g, hand, al, md, U) /\ g.held = h.held /\ g.count = h.count /\ g.slot[o] = Tmp
  <2>1. h.held[Tmp] # None /\ (h.held[Tmp] \in Shared => h.held[Tmp] # hand.item) /\ g = GetItem (h, Tmp)
    BY <1>9, <1>10
  <2> HIDE DEF g
  <2>2. Fits (g, hand, al, md, U) /\ g.held = h.held /\ g.count = h.count /\ g.slot[h.held[Tmp]] = Tmp
    BY <1>2, <1>5, <2>1, FitsLook
  <2>3. QED
    BY <1>9, <2>2
<1> HIDE DEF g
<1>12. Has (g, t, recipe.target, x) /\ Has (g, Tmp, R, l)
  BY <1>2, <1>11, HasLike
<1>13. g.held[Tmp] = o /\ g.count[Tmp] = l
  BY <1>8, <1>9, <1>11
<1>14. l = Least (MaxStack (o), n)
  BY <1>9 DEF l
<1> DEFINE w == Least (MaxStack (o), n)
<1>15. Has (g, Tmp, R, w) /\ g.count[Tmp] = w /\ MaxStack (o) \in Nat \ {0}
  BY <1>5, <1>9, <1>12, <1>13, <1>14
<1> HIDE DEF w
<1>16. Ripe (g, o, D, n, t, recipe, N)
  BY <1>4, <1>9, <1>11, <1>12, <1>13, <1>15 DEF Ripe, al, md, U, R, x, w
<1>17. QED
  BY <1>16 DEF g, h, D

\* All that was produced is back in the inventory.
BackIn (r, D, n, recipe) ==
  /\ r.rest = 0 /\ r.hung = FALSE /\ r.new \in Seq (Slot \ {Tmp})
  /\ Fits (r.heap, hand, alive \ D, Remade (made, recipe, n), (InUse \cup {Tmp}) \cup ToSet (r.new))
  /\ r.heap.count[Tmp] = 0

LEMMA RipeSource ==
  ASSUME ItemAssumption, InventoriesAssumption, NEW h, NEW o, NEW D, NEW n, NEW t, NEW recipe, NEW N, N \in Nat,
         Ripe (h, o, D, n, t, recipe, N), n <= MaxStack (o)
  PROVE  /\ Source (h, o, n, Tmp) /\ n \in Nat \ {0} /\ o \in Item /\ Good (h) /\ Tmp \in Slot
         /\ Has (h, Tmp, KindOf[o], n)
<1>1. /\ n \in 1 .. N /\ o \in Item /\ h.held[Tmp] = o /\ h.slot[o] = Tmp /\ h.count[Tmp] = Least (MaxStack (o), n)
      /\ Has (h, Tmp, Product (recipe), Least (MaxStack (o), n)) /\ KindOf[o] = Product (recipe) /\ Good (h)
      /\ MaxStack (o) \in Nat /\ Tmp \in Slot
  BY DEF Ripe, Fits, InventoriesAssumption
<1>2. Least (MaxStack (o), n) = n
  BY <1>1 DEF Least
<1>3. n <= h.count[Tmp]
  BY <1>1, <1>2
<1>4. Source (h, o, n, Tmp)
  BY <1>1, <1>3, SlotSource
<1>5. QED
  BY <1>1, <1>2, <1>4

LEMMA SettleEmpty ==
  ASSUME ItemAssumption, InventoriesAssumption, NEW i, NEW h, NEW o, NEW D, NEW n, NEW recipe, NEW N, N \in Nat,
         NEW t \in Slot, t \in InUse, t # Tmp,
         Ripe (h, o, D, n, t, recipe, N), n <= MaxStack (o), h.count[t] = 0,
         NEW r, r = Settle (h, n, t, i), ~ (r.rest > 0)
  PROVE  BackIn (r, D, n, recipe)
<1> DEFINE U == InUse \cup {Tmp}
           al == alive \ D
           md == Remade (made, recipe, n)
           q == Takes (h, t, o, n)
           k == KindOf[o]
<1>1. Fits (h, hand, al, md, U) /\ h.held[Tmp] = o /\ t \in U
  BY DEF Ripe
<1>2. Source (h, o, n, Tmp) /\ n \in Nat /\ o \in Item /\ Good (h) /\ Tmp \in Slot /\ Has (h, Tmp, k, n)
  BY RipeSource
<1>3. Tmp \in Slot \cup {None} /\ EmptyOutside (h, U) /\ h \in HeapType
  BY <1>1, <1>2 DEF Fits, Good
<1> HIDE DEF U, al, md, q, k
<1>4. PICK g : /\ AddItems (h, t, o, n) = [heap |-> g, rest |-> n - q]
               /\ q \in 0 .. n
               /\ Came (h, g, U, Tmp, o, q)
               /\ Added (h, g, t, Tmp, o, q)
  BY <1>1, <1>2, <1>3, AddCame DEF q
<1>5. r = [heap |-> g, rest |-> n - q, new |-> <<>>, hung |-> FALSE]
  <2>1. r = [heap |-> AddItems (h, t, o, n).heap, rest |-> AddItems (h, t, o, n).rest, new |-> <<>>, hung |-> FALSE]
    BY <1>1 DEF Settle
  <2>2. AddItems (h, t, o, n).heap = g /\ AddItems (h, t, o, n).rest = n - q
    BY <1>4
  <2>3. QED
    BY <2>1, <2>2
<1>6. r.heap = g /\ r.rest = n - q /\ r.new = <<>> /\ r.hung = FALSE
  BY <1>5
<1>7. q = n
  BY <1>2, <1>4, <1>6
<1>8. Fits (g, hand, al, md, U)
  BY <1>1, <1>2, <1>4, FitsFromSlot
<1>9. Has (g, Tmp, k, 0)
  <2> DEFINE m == n - n
  <2>1. Moved (h, g, t, Tmp, k, n)
    BY <1>4, <1>7 DEF Added, k
  <2>2. m = n - n /\ m = 0
    BY <1>2
  <2> HIDE DEF m
  <2>3. Has (g, Tmp, k, m)
    BY <1>2, <1>3, <2>1, <2>2, HasLess
  <2>4. QED
    BY <2>2, <2>3
<1>10. g.count[Tmp] = 0
  <2> DEFINE m == 0
  <2>1. m \in Nat /\ Has (g, Tmp, k, m) /\ Good (g) /\ k \in Kinds /\ m = 0
    BY <1>2, <1>8, <1>9 DEF Fits, Kinds, k
  <2> HIDE DEF m
  <2>2. g.count[Tmp] = m
    BY <1>2, <2>1, HasIs
  <2>3. QED
    BY <2>1, <2>2
<1>11. ToSet (r.new) = {} /\ r.new \in Seq (Slot \ {Tmp})
  BY <1>6, NoNew, EmptySeq
<1> DEFINE V == U \cup ToSet (r.new)
<1>12. V = U
  BY <1>11
<1> HIDE DEF V
<1>13. Fits (r.heap, hand, al, md, V)
  BY <1>6, <1>8, <1>12
<1>14. r.rest = 0
  BY <1>2, <1>6, <1>7
<1>15. QED
  BY <1>6, <1>10, <1>11, <1>13, <1>14 DEF BackIn, al, md, V, U

\* All that slot s had of a kind went elsewhere.
LEMMA AllGone ==
  ASSUME ItemAssumption, InventoriesAssumption, NEW h \in HeapType, NEW g \in HeapType, NEW X, X \subseteq Slot,
         NEW s \in Slot, s \notin X, NEW k, NEW n \in Nat, Flow (h, g, X, s, k, n), Amount (h, s, k) = n
  PROVE  Amount (g, s, k) = 0
<1> DEFINE Y == X \cup {s}
           W == Less (Y, s)
<1>1. Y \in SUBSET Slot /\ X \in SUBSET Slot /\ W = X /\ s \in Y /\ X \subseteq Y /\ Slots (Y) /\ Slots (X)
  BY DEF Less, Slots
<1> HIDE DEF Y
<1>2. Counted (g, X, k) = Counted (h, X, k) + n - 0
  BY <1>1 DEF Flow
<1>3. Counted (g, Y, k) = Counted (h, Y, k) + n - n
  BY <1>1 DEF Flow
<1>4. Counted (g, Y, k) = Counted (g, W, k) + (IF s \in Y THEN Amount (g, s, k) ELSE 0)
  BY <1>1, CountedMaybe
<1>5. Counted (h, Y, k) = Counted (h, W, k) + (IF s \in Y THEN Amount (h, s, k) ELSE 0)
  BY <1>1, CountedMaybe
<1> HIDE DEF W
<1> DEFINE a == Counted (g, X, k)
           b == Counted (h, X, k)
           c == Counted (g, Y, k)
           d == Counted (h, Y, k)
           e == Amount (g, s, k)
<1>6. a \in Nat /\ b \in Nat
  BY <1>1, CountedType
<1>7. c \in Nat /\ d \in Nat
  BY <1>1, CountedType
<1>8. e \in Nat
  BY AmountType
<1>9. a = b + n - 0 /\ c = d + n - n /\ c = a + e /\ d = b + n
  BY <1>1, <1>2, <1>3, <1>4, <1>5
<1> HIDE DEF a, b, c, d, e
<1>10. e = 0
  BY <1>6, <1>7, <1>8, <1>9
<1>11. QED
  BY <1>10 DEF e

LEMMA SettleInto ==
  ASSUME ItemAssumption, InventoriesAssumption, slots \in [Inventory -> Seq (Slot \ {Tmp})],
         NEW i \in Inventory, NEW h, NEW o, NEW D, NEW n, NEW recipe, NEW N, N \in Nat, NEW t, InUse \subseteq Slot \ {Tmp},
         Ripe (h, o, D, n, t, recipe, N), n <= MaxStack (o), h.count[t] # 0, o \in Mutable => n = 1,
         NEW r, r = Settle (h, n, t, i), ~ (r.rest > 0)
  PROVE  BackIn (r, D, n, recipe)
<1> DEFINE U == InUse \cup {Tmp}
           al == alive \ D
           md == Remade (made, recipe, n)
           k == KindOf[o]
<1>1. Fits (h, hand, al, md, U) /\ h.held[Tmp] = o
  BY DEF Ripe
<1>2. Source (h, o, n, Tmp) /\ n \in Nat /\ o \in Item /\ Good (h) /\ Tmp \in Slot /\ Has (h, Tmp, k, n)
  BY RipeSource
<1>3. EmptyOutside (h, U) /\ h \in HeapType /\ Using (U) /\ Tmp \in U /\ Tmp \notin Fresh /\ Tmp \in Slot \cup {None}
  BY <1>1, <1>2 DEF Fits, Good, Using, Fresh
<1>4. r = InvAdd (h, i, o, n)
  BY <1>1 DEF Settle
<1>5. \A u \in Fresh : h.count[u] = 0
  BY <1>3 DEF EmptyOutside, Fresh
<1> HIDE DEF U, al, md, k
<1>6. Landed (h, r, U, Tmp, o, n)
  <2> DEFINE s == Tmp
  <2>1. s = Tmp /\ (s = None \/ s \in U) /\ Source (h, o, n, s)
    BY <1>2, <1>3
  <2> HIDE DEF s
  <2>2. Landed (h, r, U, s, o, n)
    BY <1>2, <1>3, <1>4, <2>1, InvAddCame
  <2>3. QED
    BY <2>1, <2>2
<1>7. InvAdded (h, r, i, Tmp, o, n)
  <2> DEFINE s == Tmp
  <2>1. s = Tmp /\ s \in Slot \cup {None} /\ s \notin Fresh /\ (n > 0 => Source (h, o, n, s))
    BY <1>2, <1>3
  <2> HIDE DEF s
  <2>2. InvAdded (h, InvAdd (h, i, o, n), i, s, o, n)
    BY <1>2, <1>5, <2>1, InvAddIs
  <2>3. QED
    BY <1>4, <2>1, <2>2
<1>8. /\ r.rest \in 0 .. n /\ r.hung = FALSE /\ r.new \in Seq (Slot \ {Tmp})
      /\ Came (h, r.heap, U \cup ToSet (r.new), Tmp, o, n - r.rest)
  BY <1>6 DEF Landed
<1>9. r.rest = 0 /\ n - r.rest = n
  BY <1>2, <1>8
<1> DEFINE V == U \cup ToSet (r.new)
           g == r.heap
           X == SlotsOf (i) \cup ToSet (r.new)
<1>10. Came (h, g, V, Tmp, o, n)
  BY <1>8, <1>9
<1>11. Flow (h, g, X, Tmp, k, n) /\ ToSet (r.new) \subseteq Fresh
  BY <1>7, <1>9 DEF InvAdded, Running, k
<1>12. X \subseteq Slot \ {Tmp}
  <2>1. SlotsOf (i) \subseteq InUse
    BY UseIs
  <2>2. QED
    BY <1>11, <2>1 DEF Fresh
<1> HIDE DEF V, g, X
<1>13. Fits (g, hand, al, md, V)
  BY <1>1, <1>2, <1>10, FitsFromSlot
<1>14. Good (g) /\ g \in HeapType
  BY <1>13 DEF Fits, Good
<1>16. ASSUME NEW j \in Kinds PROVE Amount (g, Tmp, j) = 0
  <2>1. Amount (h, Tmp, j) = IF j = k THEN n ELSE 0
    BY <1>2 DEF Has
  <2>2. CASE j # k
    BY <1>2, <1>11, <2>1, <2>2 DEF Flow
  <2>3. CASE j = k
    <3>1. Amount (h, Tmp, k) = n /\ X \subseteq Slot /\ Tmp \notin X
      BY <1>12, <2>1, <2>3
    <3>2. Amount (g, Tmp, k) = 0
      BY <1>2, <1>3, <1>11, <1>14, <3>1, AllGone
    <3>3. QED
      BY <2>3, <3>2
  <2>4. QED
    BY <2>2, <2>3
<1>17. g.count[Tmp] = 0
  BY <1>2, <1>14, <1>16, EmptySlot
<1>18. QED
  BY <1>8, <1>9, <1>13, <1>17 DEF BackIn, al, md, V, U, g

\* `dead` is what Combine's temporary slot still held and f the heap without it.
Tidy (g, f, dead) == dead = Deleted (g, {Tmp}) /\ f = Without (Cleared (g, {Tmp}), Deleted (g, {Tmp}))
Within (V, U) == V \subseteq U \cup {Tmp}

\* The items that were seen in the temporary slot are in none.
Unseen (h) == [p \in Item |-> IF h.slot[p] = Tmp THEN None ELSE h.slot[p]]

LEMMA WithoutIs ==
  ASSUME ItemAssumption, InventoriesAssumption, NEW g, Good (g), g.count[Tmp] = 0
  PROVE  /\ Deleted (g, {Tmp}) = {}
         /\ Without (Cleared (g, {Tmp}), Deleted (g, {Tmp})) = Heap (g.held, g.count, g.next, Unseen (g))
         /\ \A p \in Mutable : g.slot[p] # Tmp
<1> DEFINE S == {Tmp}
           dead == Deleted (g, S)
           f == Cleared (g, S)
<1>1. /\ g \in HeapType /\ Tmp \in Slot
      /\ g.held[Tmp] = None /\ None \notin Mutable
      /\ \A p \in Mutable : g.slot[p] # Tmp
  <2>1. Tmp \in Slot
    BY DEF InventoriesAssumption
  <2>2. /\ g.held[Tmp] = None <=> g.count[Tmp] = 0
        /\ \A p \in Mutable : g.slot[p] = Tmp => g.held[Tmp] \in Mutable
    BY <2>1, GoodSlot
  <2>3. QED
    BY <2>1, <2>2 DEF ItemAssumption, Good
<1>2. dead = {}
  BY <1>1 DEF Deleted
<1>3. /\ g = Heap (g.held, g.count, g.next, g.slot)
      /\ g.held \in [Slot -> Item \cup {None}]
      /\ g.count \in [Slot -> Nat]
      /\ g.next \in [Mutable -> Mutable \cup {None}]
      /\ g.slot \in [Item -> Slot \cup {None}]
  BY <1>1, HeapIs
<1> DEFINE e == Forgotten (f, dead)
<1>4. e = g
  <2> DEFINE hd == [s \in Slot |-> IF s \in S THEN None ELSE g.held[s]]
             ct == [s \in Slot |-> IF s \in S THEN 0 ELSE g.count[s]]
             nx == [p \in Mutable |-> IF p \in dead THEN None ELSE g.next[p]]
             sl == [p \in Item |-> IF p \in dead THEN None ELSE g.slot[p]]
  <2>1. hd = g.held
    BY <1>1, <1>3
  <2>2. ct = g.count
    BY <1>1, <1>3
  <2>3. sl = g.slot
    BY <1>2, <1>3
  <2>4. nx = g.next
    BY <1>2, <1>3
  <2>5. e = Emptied (g, S, dead)
    <3> HIDE DEF S
    <3>1. QED
      BY <1>1, EmptiedIs
  <2>6. e = Heap (hd, ct, nx, sl)
    <3> HIDE DEF S, dead, e
    <3>1. QED
      BY <2>5 DEF Emptied
  <2> HIDE DEF hd, ct, nx, sl, e
  <2>7. QED
    BY <1>3, <2>1, <2>2, <2>3, <2>4, <2>6
<1> DEFINE u == [p \in Item |-> IF e.slot[p] = Tmp THEN None ELSE e.slot[p]]
<1>5. Without (f, dead) = [e EXCEPT !.slot = u]
  BY DEF Without
<1> HIDE DEF e, f, dead
<1>6. u = Unseen (g)
  BY <1>4 DEF Unseen
<1> HIDE DEF u
<1>7. [g EXCEPT !.slot = u] = Heap (g.held, g.count, g.next, u)
  <2> DEFINE a == g.held
             b == g.count
             c == g.next
             d == g.slot
  <2>1. g = Heap (a, b, c, d)
    BY <1>3
  <2> HIDE DEF a, b, c, d
  <2>2. [g EXCEPT !.slot = u] = Heap (a, b, c, u)
    BY <2>1 DEF Heap
  <2>3. QED
    BY <2>2 DEF a, b, c
<1>8. Without (f, dead) = Heap (g.held, g.count, g.next, Unseen (g))
  BY <1>4, <1>5, <1>6, <1>7
<1>9. QED
  BY <1>1, <1>2, <1>8 DEF f, dead, S

LEMMA FitsTidy ==
  ASSUME ItemAssumption, InventoriesAssumption, NEW g, NEW hd, NEW al, NEW md, NEW V, Fits (g, hd, al, md, V),
         g.count[Tmp] = 0, NEW U, Within (V, U), NEW f, NEW dead, Tidy (g, f, dead)
  PROVE  Fits (f, hd, al, md, U) /\ dead = {}
<1> DEFINE sl == Unseen (g)
<1>1. Good (g) /\ EmptyOutside (g, V) /\ Held (g, hd, al)
  BY DEF Fits
<1>2. /\ dead = {} /\ f = Heap (g.held, g.count, g.next, sl)
      /\ \A p \in Mutable : g.slot[p] # Tmp
  BY <1>1, WithoutIs DEF Tidy
<1>3. g \in HeapType
  BY <1>1 DEF Good
<1>4. /\ g.held \in [Slot -> Item \cup {None}] /\ g.count \in [Slot -> Nat]
      /\ g.next \in [Mutable -> Mutable \cup {None}] /\ g.slot \in [Item -> Slot \cup {None}]
  BY <1>3, HeapIs
<1>5. /\ sl \in [Item -> Slot \cup {None}]
      /\ \A p \in Item : g.slot[p] # Tmp => sl[p] = g.slot[p]
  BY <1>4 DEF Unseen
<1> HIDE DEF sl
<1>6. f \in HeapType
  <2> DEFINE a == g.held
             b == g.count
             c == g.next
  <2>1. /\ a \in [Slot -> Item \cup {None}] /\ b \in [Slot -> Nat] /\ c \in [Mutable -> Mutable \cup {None}]
        /\ sl \in [Item -> Slot \cup {None}]
    BY <1>4, <1>5
  <2>2. f = Heap (a, b, c, sl)
    BY <1>2
  <2> HIDE DEF a, b, c
  <2>3. Heap (a, b, c, sl) \in HeapType
    BY <2>1, HeapMade
  <2>4. QED
    BY <2>2, <2>3
<1>7. f.held = g.held /\ f.count = g.count /\ f.next = g.next /\ f.slot = sl
  BY <1>2 DEF Heap
<1>8. Like (g, f)
  BY <1>2, <1>5, <1>6, <1>7 DEF Like, Item
<1>9. hd.item \in Shared => f.slot[hd.item] = g.slot[hd.item]
  <2>1. SUFFICES ASSUME hd.item \in Shared PROVE f.slot[hd.item] = g.slot[hd.item]
    OBVIOUS
  <2>2. g.slot[hd.item] = None
    <3>1. None \notin Shared /\ Mutable \cap Shared = {}
      BY DEF ItemAssumption
    <3>2. QED
      BY <1>1, <2>1, <3>1 DEF Held, Empty
  <2>3. None # Tmp /\ hd.item \in Item
    BY <2>1 DEF ItemAssumption, InventoriesAssumption, Item
  <2>4. QED
    BY <1>5, <1>7, <2>2, <2>3
<1>10. Fits (f, hd, al, md, V)
  BY <1>8, <1>9, FitsLike
<1>11. EmptyOutside (f, U)
  BY <1>1, <1>7 DEF EmptyOutside, Within
<1>12. QED
  BY <1>2, <1>10, <1>11 DEF Fits

\* What inventory::combine says it made of what there is.
Counts (md, recipe, n) ==
  [k \in Kinds |-> md[k] - (IF k = recipe.agent /\ recipe.consumes THEN n ELSE 0)
                         - (IF k = recipe.target /\ recipe.result # Self THEN n ELSE 0)
                         + (IF k = recipe.result THEN n ELSE 0)]

LEMMA CountsAre ==
  ASSUME InventoriesAssumption, NEW md, NEW recipe, NEW n \in Nat,
         recipe.result # Self => StackOf[recipe.result] \in Nat /\ n <= StackOf[recipe.result]
  PROVE  Counts (md, recipe, n) = Remade (md, recipe, n)
<1> DEFINE a == Counts (md, recipe, n)
           b == Remade (md, recipe, n)
<1>1. ASSUME NEW k \in Kinds PROVE a[k] = b[k]
  <2> DEFINE p == IF k = recipe.result THEN n ELSE 0
  <2>1. GotBy (recipe, k, n) = p
    <3>1. CASE k = recipe.result
      <4>1. recipe.result # Self
        BY <3>1, SelfIsNoKind
      <4>2. QED
        BY <3>1, <4>1 DEF GotBy, Least
    <3>2. QED
      BY <3>1 DEF GotBy
  <2>2. b[k] = md[k] - UsedUp (recipe, k, n) - Replaced (recipe, k, n) + GotBy (recipe, k, n)
    BY DEF Remade
  <2>3. a[k] = md[k] - UsedUp (recipe, k, n) - Replaced (recipe, k, n) + p
    BY DEF Counts, UsedUp, Replaced
  <2> HIDE DEF a, b, p
  <2>4. QED
    BY <2>1, <2>2, <2>3
<1>2. a = [k \in Kinds |-> a[k]] /\ b = [k \in Kinds |-> b[k]]
  BY DEF Counts, Remade
<1> HIDE DEF a, b
<1>3. a = b
  BY <1>1, <1>2
<1>4. QED
  BY <1>3 DEF a, b

LEMMA CombineStep ==
  ASSUME ItemAssumption, InventoriesAssumption, Careful, IInv, NEW i \in Inventory, NEW b \in InUse, NEW recipe \in Recipes,
         NEW t \in SlotsOf (i), Combine (i, t, b, recipe)
  PROVE  IInv'
<1> DEFINE N == heap.count[t]
           M == heap.count[b]
           c == CombineAll (t, b, recipe)
           n == c.n
           D == c.dead
           o == c.heap.held[Tmp]
           h == GetItem (c.heap, Tmp)
           r == Settle (h, n, t, i)
           g == r.heap
           S == {Tmp}
           dead == Deleted (g, S)
           f == Without (Cleared (g, S), dead)
<1>1. Begun (t, b, recipe, N, M)
  BY CombineBegins
<1>2. /\ SmallEnough (o, n) /\ (r.rest > 0 => Crowded) /\ c.heap.count[Tmp] = n
      /\ heap' = f /\ slots' = [slots EXCEPT ![i] = @ \o r.new]
      /\ alive' = alive \ (D \cup dead) /\ hung' = r.hung
      /\ made' = Counts (made, recipe, n) /\ hand' = hand
  BY DEF Combine, Counts
<1>3. heap.held[b] # None /\ KindOf[heap.held[b]] = recipe.agent
  BY DEF Combine
<1>4. c = CombineAll (t, b, recipe) /\ n = c.n /\ D = c.dead /\ o = c.heap.held[Tmp] /\ h = GetItem (c.heap, Tmp)
      /\ r = Settle (h, n, t, i) /\ N = heap.count[t] /\ g = r.heap /\ dead = Deleted (g, S) /\ f = Without (Cleared (g, S), dead)
  OBVIOUS
<1> HIDE DEF c, n, D, o, h, r, g, dead, f, N
<1>5. /\ slots \in [Inventory -> Seq (Slot \ {Tmp})] /\ InUse \subseteq Slot \ {Tmp} /\ Good (heap)
      /\ made \in [Kinds -> Nat] /\ t \in InUse /\ t \in Slot /\ t # Tmp /\ b \in Slot
  BY InOrder, UseIs
<1> HIDE DEF M
<1>7. Mixing (t, b, recipe, N, M) /\ Mid (heap, {}, 0, t, b, recipe, N, M)
  BY <1>1 DEF Begun
<1>8. c \in Mids (t, b, recipe, N, M) /\ AtEnd (recipe, n, N, M)
  <2>1. c \in Mids (t, b, recipe, N, M) /\ AtEnd (recipe, c.n, N, M)
    BY <1>4, <1>7, CombineAllIs
  <2>2. QED
    BY <1>4, <2>1
<1>9. N \in Nat /\ recipe.consumes \in BOOLEAN /\ Sound (recipe)
  BY <1>7 DEF Mixing, Sound
<1>11. Ripe (h, o, D, n, t, recipe, N)
  <2>1. Ripe (GetItem (c.heap, Tmp), o, c.dead, n, t, recipe, N)
    BY <1>4, <1>7, <1>8, RipeIs
  <2>2. QED
    BY <1>4, <2>1
<1>12. ~ (r.rest > 0)
  BY <1>2 DEF Careful
<1>13. h.held[Tmp] = o /\ n \in Nat /\ o \in Item /\ MaxStack (o) \in Nat /\ KindOf[o] = Product (recipe)
  BY <1>9, <1>11 DEF Ripe
<1>14. h.count = c.heap.count
  <2>1. Good (c.heap) /\ Tmp \in Slot /\ c.heap.held[Tmp] # None
    <3>1. Mid (c.heap, D, n, t, b, recipe, N, M)
      BY <1>4, <1>8 DEF Mids
    <3>2. Good (c.heap)
      BY <3>1 DEF Mid, Fits
    <3>3. QED
      BY <1>4, <1>13, <3>2 DEF InventoriesAssumption, ItemAssumption, Item
  <2>2. Like (c.heap, GetItem (c.heap, Tmp))
    BY <2>1, GetItemIs
  <2>3. QED
    BY <1>4, <2>2 DEF Like
<1>15. n <= MaxStack (o)
  <2>1. n = Least (MaxStack (o), n)
    BY <1>2, <1>11, <1>14 DEF Ripe
  <2>2. QED
    BY <1>13, <2>1 DEF Least
<1>16. o \in Mutable => n = 1
  BY <1>2 DEF SmallEnough, Careful
<1>17. BackIn (r, D, n, recipe)
  <2>1. CASE h.count[t] = 0
    BY <1>4, <1>5, <1>9, <1>11, <1>12, <1>15, <2>1, SettleEmpty
  <2>2. CASE h.count[t] # 0
    BY <1>4, <1>5, <1>9, <1>11, <1>12, <1>15, <1>16, <2>2, SettleInto
  <2>3. QED
    BY <2>1, <2>2
<1> DEFINE V == (InUse \cup {Tmp}) \cup ToSet (r.new)
           U == InUse \cup ToSet (r.new)
           al == alive \ D
           md == Remade (made, recipe, n)
<1>18. /\ r.hung = FALSE /\ r.new \in Seq (Slot \ {Tmp}) /\ Fits (g, hand, al, md, V) /\ g.count[Tmp] = 0
  BY <1>4, <1>17 DEF BackIn
<1>19. slots' \in [Inventory -> Seq (Slot \ {Tmp})] /\ InUse' = U
  BY <1>2, <1>5, <1>18, GrownUse
<1>20. V \subseteq U \cup {Tmp}
  OBVIOUS
<1> HIDE DEF V, U, al, md
<1>21. Fits (f, hand, al, md, U) /\ dead = {}
  <2>1. Tidy (g, f, dead)
    BY <1>4 DEF Tidy
  <2>2. Within (V, U)
    BY <1>20 DEF Within
  <2>3. Fits (g, hand, al, md, V) /\ g.count[Tmp] = 0
    BY <1>18
  <2>4. QED
    BY <2>1, <2>2, <2>3, FitsTidy
<1>22. alive' = al
  BY <1>2, <1>21 DEF al
<1>23. made' = md
  <2>1. recipe.result # Self => StackOf[recipe.result] \in Nat /\ n <= StackOf[recipe.result]
    BY <1>13, <1>15 DEF MaxStack, Product
  <2>2. Counts (made, recipe, n) = Remade (made, recipe, n)
    BY <1>13, <2>1, CountsAre
  <2>3. QED
    BY <1>2, <2>2 DEF md
<1>24. Fits (heap', hand', alive', made', InUse')
  BY <1>2, <1>19, <1>21, <1>22, <1>23
<1>25. hung' = FALSE
  BY <1>2, <1>18
<1>26. QED
  BY <1>19, <1>24, <1>25 DEF IInv

-----------------------------------------------------------------------------
(* The invariant holds. *)

\* Slots that count no items do not matter for how many there are.
LEMMA CountedMore ==
  ASSUME ItemAssumption, NEW h \in HeapType, NEW T \in SUBSET Slot, NEW S \in SUBSET T,
         \A u \in T \ S : h.count[u] = 0, NEW k
  PROVE  Counted (h, T, k) = Counted (h, S, k)
<1>1. S \in SUBSET Slot
  OBVIOUS
<1>2. /\ Places (h, S, k) = {x \in S \X Nat : x[2] \in 1 .. Amount (h, x[1], k)}
      /\ Places (h, T, k) = {x \in T \X Nat : x[2] \in 1 .. Amount (h, x[1], k)}
  BY <1>1, PlacesAre
<1>3. \A u \in T \ S : 1 .. Amount (h, u, k) = {}
  BY DEF Amount
<1>4. Places (h, S, k) = Places (h, T, k)
  <2>1. ASSUME NEW x \in T \X Nat, x[2] \in 1 .. Amount (h, x[1], k)
        PROVE  x \in S \X Nat
    BY <1>3, <2>1
  <2>2. QED
    BY <1>2, <2>1
<1>5. QED
  BY <1>4 DEF Counted

LEMMA InitInOrder ==
  ASSUME ItemAssumption, InventoriesAssumption, Init
  PROVE  IInv
<1>1. slots \in [Inventory -> Seq (Slot \ {Tmp})] /\ hung = FALSE
  BY DEF Init, InventoriesAssumption
<1>2. heap \in HeapType
  <2> DEFINE a == [s \in Slot |-> None]
             b == [s \in Slot |-> 0]
             c == [o \in Mutable |-> None]
             d == [o \in Item |-> None]
  <2>1. heap = Heap (a, b, c, d)
    BY DEF Init, EmptyHeap, Heap
  <2>2. /\ a \in [Slot -> Item \cup {None}] /\ b \in [Slot -> Nat]
        /\ c \in [Mutable -> Mutable \cup {None}] /\ d \in [Item -> Slot \cup {None}]
    OBVIOUS
  <2> HIDE DEF a, b, c, d
  <2>3. Heap (a, b, c, d) \in HeapType
    BY <2>2, HeapMade
  <2>4. QED
    BY <2>1, <2>3
<1>3. /\ \A s \in Slot : heap.held[s] = None /\ heap.count[s] = 0
      /\ \A o \in Mutable : heap.next[o] = None /\ heap.slot[o] = None
  BY DEF Init, EmptyHeap, Item
<1>4. Good (heap)
  <2>1. ASSUME NEW s \in Slot
        PROVE  Filed (heap, <<>>, s)
    BY <1>3 DEF Filed, ItemAssumption
  <2>2. QED
    BY <1>2, <2>1 DEF Good
<1>5. EmptyOutside (heap, InUse)
  BY <1>3 DEF EmptyOutside
<1>6. Living (heap, alive)
  BY <1>3 DEF Living, Init
<1>7. Held (heap, hand, alive)
  <2>1. Free (heap) \cap alive = {}
    BY DEF Init
  <2>2. QED
    BY <2>1, EmptyHolds DEF Init
<1>8. Numbers (heap, hand, made)
  <2>1. made = [k \in Kinds |-> 0] /\ hand = Empty
    BY DEF Init
  <2>2. ASSUME NEW k \in Kinds
        PROVE  Counted (heap, Slot, k) = 0
    <3>1. Places (heap, Slot, k) = {}
      BY <1>3 DEF Places
    <3>2. QED
      BY <3>1, FS_EmptySet DEF Counted
  <2>3. \A k \in Kinds : InHand (hand, k) = 0
    BY <2>1 DEF InHand
  <2>4. QED
    BY <2>1, <2>2, <2>3 DEF Numbers
<1>9. QED
  BY <1>1, <1>4, <1>5, <1>6, <1>7, <1>8 DEF IInv, Fits

LEMMA StillInOrder ==
  ASSUME IInv, UNCHANGED vars
  PROVE  IInv'
<1>1. InUse' = InUse
  BY SameUse DEF vars
<1>2. QED
  BY <1>1 DEF IInv, vars

LEMMA NextInOrder ==
  ASSUME ItemAssumption, InventoriesAssumption, Careful, IInv, Next
  PROVE  IInv'
<1>1. CASE Making
  <2>1. CASE \E o \in Mutable : Create (o)
    BY <2>1, CreateStep
  <2>2. CASE \E k \in Shared, n \in 1 .. MaxMade : Fetch (k, n)
    BY <2>2, FetchStep
  <2>3. CASE \E i \in Inventory : PutInto (i)
    BY <2>3, PutIntoStep
  <2>4. CASE \E s \in InUse : PutSlot (s)
    BY <2>4, PutSlotStep
  <2>5. QED
    BY <1>1, <2>1, <2>2, <2>3, <2>4 DEF Making
<1>2. ASSUME NEW s \in InUse, NEW n \in Amounts (s), NEW i \in Inventory, MoveInto (s, i, n)
      PROVE  IInv'
  BY <1>2, MoveIntoStep
<1>3. ASSUME NEW s \in InUse, NEW n \in Amounts (s), NEW t \in InUse, MoveTo (s, t, n)
      PROVE  IInv'
  BY <1>3, MoveToStep
<1>4. ASSUME NEW s \in InUse, NEW n \in Amounts (s), NEW t \in InUse, EquipFrom (s, t, n)
      PROVE  IInv'
  BY <1>4, EquipFromStep
<1>5. ASSUME NEW s \in InUse, NEW n \in Amounts (s), TakeOut (s, n)
      PROVE  IInv'
  BY <1>5, TakeOutStep
<1>6. ASSUME NEW s \in InUse, EquipHand (s)
      PROVE  IInv'
  BY <1>6, EquipHandStep
<1>7. ASSUME NEW s \in InUse, Look (s)
      PROVE  IInv'
  BY <1>7, LookStep
<1>8. CASE Moving
  BY <1>2, <1>3, <1>4, <1>5, <1>6, <1>7, <1>8 DEF Moving
<1>9. CASE Combining
  <2>1. ASSUME NEW i \in Inventory, NEW b \in InUse, NEW recipe \in Recipes, NEW t \in SlotsOf (i), Combine (i, t, b, recipe)
        PROVE  IInv'
    BY <2>1, CombineStep
  <2>2. QED
    BY <1>9, <2>1 DEF Combining
<1>10. CASE Unmaking
  <2>1. CASE \E o \in Mutable : Destroy (o)
    BY <2>1, DestroyStep
  <2>2. CASE \E s \in InUse : DestroyShared (s)
    BY <2>2, DestroySharedStep
  <2>3. CASE \E s \in InUse : Clear (s)
    BY <2>3, ClearStep
  <2>4. CASE \E i \in Inventory : DeleteInventory (i)
    BY <2>4, DeleteInventoryStep
  <2>5. CASE \E i \in Inventory : Reload (i)
    BY <2>5, ReloadStep
  <2>6. QED
    BY <1>10, <2>1, <2>2, <2>3, <2>4, <2>5 DEF Unmaking
<1>11. QED
  BY <1>1, <1>8, <1>9, <1>10 DEF Next

\* Whatever careful scripts do with items, in whatever order, every slot is a
\* list of items that know it, with its count, what the script holds is in no
\* slot, deleted items are nowhere, and no item is missing.
THEOREM AlwaysInOrder == Careful => (Spec => []IInv)
<1>1. SUFFICES ASSUME Careful PROVE Spec => []IInv
  OBVIOUS
<1>2. Init => IInv
  BY ItemAssumption, InventoriesAssumption, InitInOrder
<1>3. IInv /\ [Next]_vars => IInv'
  <2>1. CASE Next
    BY <1>1, <2>1, ItemAssumption, InventoriesAssumption, NextInOrder
  <2>2. CASE UNCHANGED vars
    BY <2>2, StillInOrder
  <2>3. QED
    BY <2>1, <2>2
<1>4. QED
  BY <1>2, <1>3, PTL DEF Spec

-----------------------------------------------------------------------------
(* What follows from the inductive invariant. *)

\* What a script holds is an item.
LEMMA HandTyped ==
  ASSUME ItemAssumption, IInv
  PROVE  hand = Empty \/ hand \in [item : Item, count : Nat \ {0}]
BY InOrder DEF Held, Item

LEMMA StacksInOrder ==
  ASSUME ItemAssumption, InventoriesAssumption, IInv
  PROVE  StacksAgree
<1>1. Good (heap) /\ EmptyOutside (heap, InUse) /\ Living (heap, alive) /\ Held (heap, hand, alive) /\ InUse \subseteq Slot
  BY InOrder
<1>2. heap \in HeapType /\ None \notin Slot
  BY <1>1 DEF Good, ItemAssumption
<1>3. ASSUME NEW s \in InUse, heap.held[s] \in Mutable
      PROVE  Cardinality (Stack (heap, heap.held[s])) = heap.count[s]
  <2>1. s \in Slot
    BY <1>1
  <2>2. PICK c : Filed (heap, c, s)
    BY <1>1, <2>1 DEF Good
  <2> DEFINE n == heap.count[s]
  <2>3. n \in Nat \ {0} /\ Chain (heap, c, n) /\ heap.held[s] = c[1]
    BY <1>1, <1>3, <2>1, <2>2, FiledItems
  <2>4. heap.next \in [Mutable -> Mutable \cup {None}]
    BY <1>2, HeapIs
  <2> HIDE DEF n
  <2>5. Cardinality (Stack (heap, c[1])) = n
    BY <2>3, <2>4, ChainStack
  <2>6. QED
    BY <2>3, <2>5 DEF n
<1>4. ASSUME NEW s \in InUse, heap.held[s] \in Mutable, NEW o \in Stack (heap, heap.held[s])
      PROVE  o \in alive /\ heap.slot[o] = s
  <2>1. s \in Slot
    BY <1>1
  <2>2. o \in Mutable /\ heap.slot[o] = s
    BY <1>1, <1>4, <2>1, SlotStack
  <2>3. QED
    BY <1>1, <1>2, <2>1, <2>2 DEF Living
<1>5. ASSUME NEW o \in alive
      PROVE  IF heap.slot[o] = None THEN o \in Stack (heap, hand.item)
             ELSE heap.slot[o] \in InUse /\ o \in Stack (heap, heap.held[heap.slot[o]])
  <2>1. o \in Mutable
    BY <1>1 DEF Living
  <2>2. CASE heap.slot[o] = None
    BY <1>1, <2>1, <2>2, FreeInHand
  <2>3. CASE heap.slot[o] # None
    <3> DEFINE s == heap.slot[o]
    <3>1. s \in Slot
      BY <1>2, <2>1, <2>3, HeapIs DEF Item
    <3>2. heap.held[s] \in Mutable
      BY <1>1, <2>1, <3>1, GoodSlot
    <3>3. heap.count[s] # 0
      BY <1>1, <3>1, <3>2, GoodSlot DEF ItemAssumption
    <3>4. s \in InUse
      BY <1>1, <3>1, <3>3 DEF EmptyOutside
    <3>5. Stack (heap, heap.held[s]) = {p \in Mutable : heap.slot[p] = s}
      BY <1>1, <3>1, <3>2, SlotStack
    <3>6. o \in Stack (heap, heap.held[s])
      BY <2>1, <3>5
    <3>7. QED
      BY <2>3, <3>4, <3>6
  <2>4. QED
    BY <2>2, <2>3
<1>6. QED
  BY <1>3, <1>4, <1>5 DEF StacksAgree

LEMMA SlotsInOrder ==
  ASSUME ItemAssumption, InventoriesAssumption, IInv
  PROVE  SlotsAgree
<1>1. Good (heap) /\ Living (heap, alive)
  BY InOrder
<1>2. TypeOK
  BY <1>1, InOrder, HandTyped DEF TypeOK, Good, Living
<1>3. EmptyIfNoneCounted
  BY <1>1, GoodSlot DEF EmptyIfNoneCounted
<1>4. NotOverfull
  BY <1>1, GoodSlot DEF NotOverfull
<1>5. QED
  BY <1>2, <1>3, <1>4, StacksInOrder DEF SlotsAgree

LEMMA AllCounted ==
  ASSUME ItemAssumption, InventoriesAssumption, IInv
  PROVE  NothingLost
<1>1. heap \in HeapType /\ EmptyOutside (heap, InUse) /\ Numbers (heap, hand, made) /\ InUse \in SUBSET Slot
  BY InOrder DEF Fits, Good
<1>2. ASSUME NEW k \in Kinds
      PROVE  made[k] = Counted (heap, InUse, k) + InHand (hand, k)
  <2>1. \A u \in Slot \ InUse : heap.count[u] = 0
    BY <1>1 DEF EmptyOutside
  <2>2. Slot \in SUBSET Slot
    OBVIOUS
  <2>3. Counted (heap, Slot, k) = Counted (heap, InUse, k)
    BY <1>1, <2>1, <2>2, CountedMore
  <2>4. QED
    BY <1>1, <2>3 DEF Numbers
<1>3. QED
  BY <1>2 DEF NothingLost, InHand

LEMMA RemainderInOrder ==
  ASSUME ItemAssumption, InventoriesAssumption, Careful, IInv
  PROVE  HonestRemainder
<1>1. SUFFICES ASSUME NEW i \in Inventory, NEW s \in InUse \ SlotsOf (i), heap.held[s] # None, MayLook (s),
                      NEW n \in Amounts (s), SmallEnough (heap.held[s], n)
               PROVE  Counted (InvAdd (GetItem (heap, s), i, heap.held[s], n).heap,
                               SlotsOf (i) \cup ToSet (InvAdd (GetItem (heap, s), i, heap.held[s], n).new),
                               KindOf[heap.held[s]])
                        - Counted (heap, SlotsOf (i), KindOf[heap.held[s]])
                        = n - InvAdd (GetItem (heap, s), i, heap.held[s], n).rest
  BY DEF HonestRemainder
<1> DEFINE h == GetItem (heap, s)
           o == heap.held[s]
           k == KindOf[o]
           r == InvAdd (h, i, o, n)
           S == SlotsOf (i)
           N == ToSet (r.new)
           D == S \cup N
<1>2. heap.held[s] # None /\ MayLook (s) /\ h = GetItem (heap, s) /\ r = InvAdd (h, i, o, n) /\ s \in InUse /\ s \notin S
  BY <1>1
<1>3. Good (heap) /\ s \in Slot /\ slots \in [Inventory -> Seq (Slot \ {Tmp})] /\ InUse \subseteq Slot \ {Tmp} /\ S \subseteq InUse
  BY InOrder, UseIs
<1>4. n \in 1 .. heap.count[s] /\ n \in Nat
  BY <1>1, <1>3, AmountsAre, GoodSlot
<1>5. o \in Mutable => n = 1
  BY <1>1 DEF SmallEnough, Careful
<1> HIDE DEF h, r
<1>6. /\ Good (h) /\ EmptyOutside (h, InUse) /\ o \in Item /\ o = heap.held[s]
      /\ h.held = heap.held /\ h.count = heap.count /\ h.slot[o] = s
  BY <1>2, LookUp
<1> HIDE DEF o
<1>7. Source (h, o, n, s)
  <2>1. n <= h.count[s] /\ h.held[s] = o
    BY <1>3, <1>4, <1>6, GoodSlot
  <2>2. QED
    BY <1>3, <1>6, <2>1, SlotSource
<1>8. s \in Slot \cup {None} /\ s \notin Fresh /\ \A u \in Fresh : h.count[u] = 0
  BY <1>2, <1>3, <1>6 DEF Fresh, EmptyOutside
<1>9. InvAdded (h, r, i, s, o, n)
  BY <1>2, <1>3, <1>4, <1>5, <1>6, <1>7, <1>8, InvAddIs
<1>10. /\ r.rest \in 0 .. n /\ N \subseteq Fresh
       /\ Flow (h, r.heap, D, s, k, n - r.rest)
  BY <1>9 DEF InvAdded, Running
<1>11. D \in SUBSET Slot /\ S \in SUBSET D /\ s \notin D /\ \A u \in D \ S : h.count[u] = 0
  BY <1>2, <1>3, <1>8, <1>10 DEF Fresh
<1> HIDE DEF D, N, S
<1>12. Counted (r.heap, D, k) = Counted (h, D, k) + (n - r.rest) - 0
  BY <1>10, <1>11 DEF Flow
<1>13. Counted (h, D, k) = Counted (h, S, k)
  <2>1. h \in HeapType
    BY <1>6 DEF Good
  <2>2. QED
    BY <1>11, <2>1, CountedMore
<1>14. Counted (h, S, k) = Counted (heap, S, k)
  <2>1. \A u \in S : Amount (h, u, k) = Amount (heap, u, k)
    BY <1>6 DEF Amount
  <2>2. h \in HeapType /\ heap \in HeapType /\ S \in SUBSET Slot
    BY <1>3, <1>6, <1>11 DEF Good
  <2>3. QED
    BY <2>1, <2>2, CountedSame
<1>15. Counted (heap, S, k) \in Nat
  <2>1. S \in SUBSET Slot /\ heap \in HeapType
    BY <1>3, <1>11 DEF Good
  <2>2. QED
    BY <2>1, CountedType
<1>16. Counted (r.heap, D, k) - Counted (heap, S, k) = n - r.rest
  <2> DEFINE x == Counted (heap, S, k)
             y == Counted (r.heap, D, k)
             z == r.rest
  <2>1. x \in Nat /\ z \in Nat /\ n \in Nat /\ y = x + (n - z) - 0
    BY <1>4, <1>10, <1>12, <1>13, <1>14, <1>15
  <2> HIDE DEF x, y, z
  <2>2. y - x = n - z
    BY <2>1
  <2>3. QED
    BY <2>2 DEF x, y, z
<1>17. QED
  BY <1>16 DEF D, N, S, r, h, o

LEMMA StacksComeFirst ==
  ASSUME ItemAssumption, InventoriesAssumption, Careful, IInv
  PROVE  StacksFirst
<1>1. SUFFICES ASSUME hand # Empty, SmallEnough (hand.item, hand.count), NEW i \in Inventory
               PROVE  InvStacked (heap, InvAdd (heap, i, hand.item, hand.count), i, hand.item)
  BY DEF StacksFirst, InvStacked
<1> DEFINE o == hand.item
           n == hand.count
<1>2. slots \in [Inventory -> Seq (Slot \ {Tmp})] /\ Good (heap) /\ EmptyOutside (heap, InUse) /\ Held (heap, hand, alive)
  BY InOrder
<1>3. o \in Item /\ n \in Nat \ {0} /\ hand = HandOf (o, n)
  BY <1>1, <1>2, HandHeld
<1>4. o \in Mutable => n = 1
  BY <1>1 DEF SmallEnough, Careful
<1> HIDE DEF o, n
<1>5. Source (heap, o, n, None)
  BY <1>2, <1>3, <1>4, HandSource
<1> DEFINE t == None
<1>6. t \in Slot \cup {None} /\ t \notin Fresh /\ \A u \in Fresh : heap.count[u] = 0
  BY <1>2 DEF Fresh, EmptyOutside, ItemAssumption
<1>7. t = None /\ Source (heap, o, n, t) /\ n \in Nat
  BY <1>3, <1>5
<1> HIDE DEF t
<1>8. InvStacked (heap, InvAdd (heap, i, o, n), i, o)
  BY <1>2, <1>3, <1>4, <1>6, <1>7, InvAddIs
<1>9. QED
  BY <1>8 DEF o, n

\* However many slots and items there are and however items are added, moved,
\* equipped, combined, destroyed, saved and loaded, the slots and the script
\* have as many of every kind as were made and not destroyed.
THEOREM NothingIsLost == Careful => (Spec => []NothingLost)
<1>1. IInv => NothingLost
  BY ItemAssumption, InventoriesAssumption, AllCounted
<1>2. QED
  BY <1>1, AlwaysInOrder, PTL

\* slot::add, slot::remove and item::set_slot keep stacks, counts and the
\* slots of items in agreement: a slot counts the items of its stack, all of
\* them and no others know it, and none takes more than may be stacked.
THEOREM SlotsAlwaysAgree == Careful => (Spec => []SlotsAgree)
<1>1. IInv => SlotsAgree
  BY ItemAssumption, InventoriesAssumption, SlotsInOrder
<1>2. QED
  BY <1>1, AlwaysInOrder, PTL

\* Whenever inventory::add is called, the inventory then has what it was given
\* but for what it returns, and it fills the stacks it has before it uses
\* another slot.
THEOREM AlwaysAddedInFull == Careful => (Spec => []AddedInFull)
<1>1. SUFFICES ASSUME Careful PROVE Spec => []AddedInFull
  OBVIOUS
<1>2. IInv => AddedInFull
  BY <1>1, ItemAssumption, InventoriesAssumption, RemainderInOrder, StacksComeFirst DEF AddedInFull
<1>3. QED
  BY <1>1, <1>2, AlwaysInOrder, PTL

\* The loop of inventory::add over new slots ends: a new slot always takes
\* some of what is left.
THEOREM AddAlwaysReturns == Careful => (Spec => []AddReturns)
<1>1. IInv => AddReturns
  BY DEF IInv, AddReturns
<1>2. QED
  BY <1>1, AlwaysInOrder, PTL
=============================================================================

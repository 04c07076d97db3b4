----------------------------- MODULE ItemSlots -----------------------------
(***************************************************************************)
(* The slots of inventories and the items in them (src/rpg/slot.cc and    *)
(* src/rpg/item.cc), as functions of a heap.                               *)
(*                                                                         *)
(* A mutable item is an object of its own: a slot holds the topmost item   *)
(* of a stack, every item points to the one below it (next) and back to    *)
(* its slot (slot). Of an immutable item there is one shared object,       *)
(* however many slots hold it; its slot pointer is the slot it was last    *)
(* looked up in. Both kinds of slot keep a count of their own.             *)
(***************************************************************************)
EXTENDS Integers, FiniteSets

CONSTANTS
  Mutable,    \* the mutable items
  Shared,     \* the immutable items, one object for each kind
  KindOf,     \* the kind (name) of every item
  StackOf,    \* the most items of a kind that a slot takes (max_stack)
  Slot,       \* the slots
  None        \* NULL

ASSUME ItemAssumption ==
  /\ IsFiniteSet (Mutable) /\ Mutable \cap Shared = {}
  /\ None \notin Mutable \cup Shared /\ None \notin Slot
  /\ \A k \in Shared : KindOf[k] = k
  /\ \A o \in Mutable : KindOf[o] \notin Shared
  /\ \A o \in Mutable \cup Shared : StackOf[KindOf[o]] \in Nat \ {0}

Item == Mutable \cup Shared

Same (o, p) == KindOf[o] = KindOf[p]

MaxStack (o) == StackOf[KindOf[o]]

HeapType ==
  [held  : [Slot -> Item \cup {None}],
   count : [Slot -> Nat],
   next  : [Mutable -> Mutable \cup {None}],
   slot  : [Item -> Slot \cup {None}]]

EmptyHeap ==
  [held  |-> [s \in Slot |-> None],
   count |-> [s \in Slot |-> 0],
   next  |-> [o \in Mutable |-> None],
   slot  |-> [o \in Item |-> None]]

(***************************************************************************)
(* The item n places below o in its stack, or None.                        *)
(***************************************************************************)
Below (h, o) ==
  LET b[n \in 0 .. Cardinality (Mutable)] ==
        IF n = 0 THEN o
        ELSE IF b[n - 1] \in Mutable THEN h.next[b[n - 1]] ELSE None
  IN  b

\* The stack whose topmost item is o; nothing is stacked on shared items.
Stack (h, o) ==
  {Below (h, o)[n] : n \in 0 .. Cardinality (Mutable)} \ {None}

Bottom (h, o) == CHOOSE p \in Stack (h, o) : h.next[p] = None

SetSlot (h, o, s) ==
  [h EXCEPT !.slot = [p \in Item |-> IF p \in Stack (h, o) THEN s ELSE @[p]]]

\* item::stack: o and what is below it goes under the stack of top.
PutUnder (h, top, o) == [h EXCEPT !.next[Bottom (h, top)] = o]

\* item::split: the n topmost items of the stack of o are cut off; what is
\* below them is what remains in the slot.
Cut (h, o, n) ==
  LET last == Below (h, o)[n - 1]
  IN  IF n = 0 THEN [heap |-> h, rest |-> o]
      ELSE [heap |-> SetSlot ([h EXCEPT !.next[last] = None], o, None),
            rest |-> h.next[last]]

-----------------------------------------------------------------------------
(***************************************************************************)
(* slot::remove. The result has the number of items that could not be      *)
(* removed. An item that is not on top of the stack is removed alone.      *)
(***************************************************************************)
RemoveTop (h, s, o, n) ==
  LET gone == IF h.count[s] > n THEN n ELSE h.count[s]
      less == [h EXCEPT !.count[s] = @ - gone]
      leave (cut) == [heap |-> [cut.heap EXCEPT
                        !.held[s] = IF cut.heap.count[s] = 0 THEN None ELSE cut.rest],
                      rest |-> n - gone]
  IN  leave (IF o \in Mutable THEN Cut (less, o, gone) ELSE [heap |-> less, rest |-> o])

RemoveInner (h, s, o, n) ==
  LET above == {p \in Stack (h, h.held[s]) \cap Mutable : h.next[p] = o}
  IN  IF above = {} THEN [heap |-> h, rest |-> n]
      ELSE [heap |-> [h EXCEPT
              !.next = [p \in Mutable |-> IF p \in above THEN h.next[o]
                                          ELSE IF p = o THEN None ELSE @[p]],
              !.slot[o] = None, !.count[s] = @ - 1],
            rest |-> n - 1]

RemoveItems (h, s, o, n) ==
  IF n = 0 THEN [heap |-> h, rest |-> 0]
  ELSE IF h.held[s] = o THEN RemoveTop (h, s, o, n) ELSE RemoveInner (h, s, o, n)

(***************************************************************************)
(* slot::add. As many items as fit are taken from the slot that the given  *)
(* item says it is in, and counted here. The result has the number of      *)
(* items that were not added.                                              *)
(***************************************************************************)
Fitting (h, s, o, n) ==
  LET space == MaxStack (o) - h.count[s] IN IF space > n THEN n ELSE space

TakeFrom (h, o, n) ==
  IF h.slot[o] = None THEN [heap |-> h, rest |-> 0]
  ELSE RemoveItems (h, h.slot[o], o, n)

\* Items that were taken are counted, and told where they are.
Arrive (h, s, o, got) ==
  LET there == [h EXCEPT !.count[s] = @ + got]
  IN  IF o \in Mutable THEN SetSlot (there, o, s) ELSE there

Take (h, s, o, n) ==
  LET fit == Fitting (h, s, o, n)
      count (taken) == [heap |-> Arrive (taken.heap, s, o, fit - taken.rest),
                        rest |-> n - (fit - taken.rest)]
  IN  count (TakeFrom (h, o, fit))

\* What slot::add does to the slot before it takes the items.
Ready (h, s, o) ==
  IF h.held[s] = None THEN [h EXCEPT !.held[s] = o]
  ELSE IF o \in Mutable THEN PutUnder (h, h.held[s], o) ELSE h

AddItems (h, s, o, n) ==
  CASE n = 0 \/ (h.held[s] # None /\ h.slot[o] = s) -> [heap |-> h, rest |-> 0]
    [] n > 0 /\ h.held[s] # None /\ h.slot[o] # s
         /\ (h.count[s] >= MaxStack (h.held[s]) \/ ~ Same (h.held[s], o)) ->
         [heap |-> h, rest |-> n]
    [] OTHER -> Take (Ready (h, s, o), s, o, n)

\* slot::get_item: a shared item is told the slot it was looked up in.
GetItem (h, s) ==
  IF h.held[s] \in Shared THEN [h EXCEPT !.slot[h.held[s]] = s] ELSE h

\* The mutable items in the slots of S.
Deleted (h, S) ==
  UNION {Stack (h, h.held[s]) : s \in {t \in S : h.held[t] \in Mutable}}

\* slot::clear and slot::~slot of the slots of S, which delete these items.
Cleared (h, S) ==
  LET dead == Deleted (h, S)
  IN  [h EXCEPT !.held  = [s \in Slot |-> IF s \in S THEN None ELSE @[s]],
                !.count = [s \in Slot |-> IF s \in S THEN 0 ELSE @[s]],
                !.slot  = [p \in Item |-> IF p \in dead THEN None ELSE @[p]]]
=============================================================================

---------------------------- MODULE Inventories ----------------------------
(***************************************************************************)
(* Inventories, equipment and the item storage (src/rpg/inventory.cc,      *)
(* equipment.cc, item_storage.cc), as the game's scripts use them: items   *)
(* are made, moved between slots and inventories, equipped, combined,      *)
(* destroyed, saved and loaded.                                            *)
(*                                                                         *)
(* A script holds at most one item, or stack of items, that is in no slot  *)
(* (the hand). The constants Greedy, BigStacks, Peeking, Swaps and Crowded *)
(* widen what scripts do beyond what the code copes with.                  *)
(***************************************************************************)
EXTENDS ItemSlots, FiniteSetsExt, SequencesExt

CONSTANTS
  Inventory,    \* the inventories
  Limited,      \* those that do not grow
  InitSlots,    \* the slots that an inventory is created with
  Tmp,          \* the slot that inventory::combine creates and deletes
  Equipment,    \* the slots for equipped items
  Wearable,     \* the kinds of item that can be equipped
  Notified,     \* the kinds whose Python class has a method unequipped
  Recipes,      \* what combines with what: target, agent, result, consumes
  MaxMade,      \* how many items of a shared kind there may be
  Greedy,       \* scripts move more items than a slot has
  BigStacks,    \* scripts move several mutable items at once
  Peeking,      \* scripts look into slots while they hold a shared item
  Swaps,        \* notified shared items go straight from slot to slot
  Crowded       \* items are equipped or combined that do not fit

ASSUME InventoriesAssumption ==
  /\ IsFiniteSet (Slot) /\ Tmp \in Slot /\ Equipment \subseteq Slot \ {Tmp}
  /\ InitSlots \in [Inventory -> Seq (Slot \ {Tmp})]
  /\ MaxMade \in Nat
  /\ \A o \in Mutable \cup Shared : KindOf[o] # "self"
  /\ \A recipe \in Recipes : recipe.result \in Shared \cup {"self"} /\ recipe.consumes \in BOOLEAN

VARIABLES
  heap,     \* the slots and the items in them
  slots,    \* the slots of every inventory
  hand,     \* the item(s) in no slot that the script holds, and how many
  alive,    \* the mutable items that are not deleted
  made,     \* how many items of every kind there should be
  hung      \* inventory::add is in an endless loop

vars == <<heap, slots, hand, alive, made, hung>>

Self == "self"
Kinds == {KindOf[o] : o \in Item}
Empty == [item |-> None, count |-> 0]

SlotsOf (i) == ToSet (slots[i])
InUse == UNION {SlotsOf (i) : i \in Inventory}
Spare == SetToSeq (Slot \ (InUse \cup {Tmp}))

\* The places that items of kind k take in the given slots, by number.
Places (h, S, k) ==
  UNION {{s} \X (1 .. h.count[s]) : s \in {t \in S : h.held[t] # None /\ KindOf[h.held[t]] = k}}

\* How many items of kind k the given slots count.
Counted (h, S, k) == Cardinality (Places (h, S, k))

Init ==
  /\ heap = EmptyHeap
  /\ slots = InitSlots
  /\ hand = Empty
  /\ alive = {}
  /\ made = [k \in Kinds |-> 0]
  /\ hung = FALSE

-----------------------------------------------------------------------------
\* Mutation: what remains to be added is not adjusted.
PutForgets (acc, s, o) == [acc EXCEPT !.heap = AddItems (@, s, o, acc.rest).heap]

\* One turn of a loop of inventory::add.
Put (acc, s, o) ==
  LET after (r) == [acc EXCEPT !.heap = r.heap, !.rest = r.rest]
  IN  after (AddItems (acc.heap, s, o, acc.rest))

\* A slot that has such items takes more, an empty slot takes some, and so
\* does a new slot.
OnStack (acc, s, o) ==
  IF acc.heap.count[s] > 0 /\ Same (acc.heap.held[s], o) THEN Put (acc, s, o) ELSE acc

InEmpty (acc, s, o) == IF acc.heap.count[s] = 0 THEN Put (acc, s, o) ELSE acc

InNew (acc, s, o) ==
  LET grown (p) == [p EXCEPT !.new = Append (@, s), !.hung = p.rest = acc.rest]
  IN  IF acc.rest = 0 \/ acc.hung THEN acc ELSE grown (Put (acc, s, o))

(***************************************************************************)
(* inventory::add: stackable items go to the slots that have such items,   *)
(* what is left goes to the empty slots, and what is still left to new     *)
(* slots, if the inventory may grow. A new slot that takes nothing changes *)
(* nothing for the next one: the loop does not end.                        *)
(***************************************************************************)
Stacked (acc, i, o) ==
  IF MaxStack (o) > 1 THEN FoldLeft (LAMBDA a, s : OnStack (a, s, o), acc, slots[i]) ELSE acc

Filled (acc, i, o) == FoldLeft (LAMBDA a, s : InEmpty (a, s, o), acc, slots[i])

Grown (acc, i, o) ==
  IF i \in Limited THEN acc ELSE FoldLeft (LAMBDA a, s : InNew (a, s, o), acc, Spare)

InvAdd (h, i, o, n) ==
  Grown (Filled (Stacked ([heap |-> h, rest |-> n, new |-> <<>>, hung |-> FALSE], i, o), i, o), i, o)

\* The model has slots enough for the new slots of the inventory.
FitsModel (i, r) == i \in Limited \/ r.rest = 0 \/ r.hung

\* Scripts hand over one mutable item at a time, unless BigStacks.
SmallEnough (o, n) == o \in Mutable => n = 1 \/ BigStacks

\* The item that get_item of a slot returns may be looked up: a shared item
\* in the hand of the script would change its slot.
MayLook (s) ==
  heap.held[s] \in Shared /\ heap.held[s] = hand.item => Peeking

Amounts (s) == 1 .. (heap.count[s] + IF Greedy THEN 1 ELSE 0)

HandAfter (o, rest) == IF rest = 0 THEN Empty ELSE [item |-> o, count |-> rest]

-----------------------------------------------------------------------------
(* Making and destroying items. *)

\* item::item, for a mutable item.
Create (o) ==
  /\ hand = Empty
  /\ o \notin alive
  /\ alive' = alive \cup {o}
  /\ hand' = [item |-> o, count |-> 1]
  /\ made' = [made EXCEPT ![KindOf[o]] = @ + 1]
  /\ UNCHANGED <<heap, slots, hung>>

\* Mutation: the item from the storage still has the slot it was seen in.
FromStorageStale (h, k) == h

\* item_storage::get, for a shared item, which is then in no slot.
FromStorage (h, k) == [h EXCEPT !.slot[k] = None]

Fetch (k, n) ==
  /\ hand = Empty
  /\ made[k] + n <= MaxMade
  /\ heap' = FromStorage (heap, k)
  /\ hand' = [item |-> k, count |-> n]
  /\ made' = [made EXCEPT ![k] = @ + n]
  /\ UNCHANGED <<slots, alive, hung>>

\* Nothing is below deleted items any more.
Forgotten (h, dead) ==
  [h EXCEPT !.next = [p \in Mutable |-> IF p \in dead THEN None ELSE @[p]]]

\* Mutation: a destroyed item stays in its slot.
DestroyedInSlot (h, o) == [heap |-> h, dead |-> {o} \cap Mutable]

\* item::destroy and item::~item. An item in a slot is removed from it; a
\* mutable item that is in no slot is deleted with all that is below it.
Destroyed (h, o) ==
  LET die (g, dead) == [heap |-> Forgotten (g, dead), dead |-> dead]
      free (g) == die (g, IF o \in Shared THEN {} ELSE Stack (g, o))
  IN  free (TakeFrom (h, o, 1).heap)

Destroy (o) ==
  /\ o \in alive \ Stack (heap, hand.item)
  /\ \E d \in {Destroyed (heap, o)} :
         /\ heap' = d.heap
         /\ alive' = alive \ d.dead
         /\ made' = [made EXCEPT ![KindOf[o]] = @ - 1]
  /\ UNCHANGED <<slots, hand, hung>>

DestroyShared (s) ==
  /\ heap.held[s] \in Shared /\ MayLook (s)
  /\ heap' = Destroyed (GetItem (heap, s), heap.held[s]).heap
  /\ made' = [made EXCEPT ![heap.held[s]] = @ - 1]
  /\ UNCHANGED <<slots, hand, alive, hung>>

\* The slots of S are cleared; what was in them is deleted.
ClearAll (S) ==
  LET dead == Deleted (heap, S)
  IN  /\ heap' = Forgotten (Cleared (heap, S), dead)
      /\ alive' = alive \ dead
      /\ made' = [k \in Kinds |-> made[k] - Counted (heap, S, k)]

Clear (s) ==
  /\ heap.held[s] # None
  /\ ClearAll ({s})
  /\ UNCHANGED <<slots, hand, hung>>

\* inventory::~inventory; another inventory takes its place.
DeleteInventory (i) ==
  /\ ClearAll (SlotsOf (i))
  /\ slots' = [slots EXCEPT ![i] = InitSlots[i]]
  /\ UNCHANGED <<hand, hung>>

-----------------------------------------------------------------------------
(* Moving items. *)

\* inventory::add of what the script holds.
PutInto (i) ==
  /\ hand # Empty /\ SmallEnough (hand.item, hand.count)
  /\ \E r \in {InvAdd (heap, i, hand.item, hand.count)} :
         /\ FitsModel (i, r)
         /\ heap' = r.heap
         /\ slots' = [slots EXCEPT ![i] = @ \o r.new]
         /\ hand' = HandAfter (hand.item, r.rest)
         /\ hung' = r.hung
  /\ UNCHANGED <<alive, made>>

\* slot::add of what the script holds.
PutSlot (s) ==
  /\ hand # Empty /\ SmallEnough (hand.item, hand.count)
  /\ \E r \in {AddItems (heap, s, hand.item, hand.count)} :
         /\ heap' = r.heap
         /\ hand' = HandAfter (hand.item, r.rest)
  /\ UNCHANGED <<slots, alive, made, hung>>

\* inventory::add of n items that are found in slot s.
MoveInto (s, i, n) ==
  /\ heap.held[s] # None /\ MayLook (s) /\ SmallEnough (heap.held[s], n)
  /\ \E r \in {InvAdd (GetItem (heap, s), i, heap.held[s], n)} :
         /\ FitsModel (i, r)
         /\ heap' = r.heap
         /\ slots' = [slots EXCEPT ![i] = @ \o r.new]
         /\ hung' = r.hung
  /\ UNCHANGED <<hand, alive, made>>

\* slot::add of n items that are found in slot s.
MoveTo (s, t, n) ==
  /\ heap.held[s] # None /\ MayLook (s)
  /\ heap' = AddItems (GetItem (heap, s), t, heap.held[s], n).heap
  /\ UNCHANGED <<slots, hand, alive, made, hung>>

\* slot::get_item alone, as by inventory::find and by whoever lists a slot.
Look (s) ==
  /\ heap.held[s] # None /\ MayLook (s)
  /\ heap' = GetItem (heap, s)
  /\ UNCHANGED <<slots, hand, alive, made, hung>>
-----------------------------------------------------------------------------
(***************************************************************************)
(* Equipment. A shared item whose class has the methods equipped and       *)
(* unequipped is told its slot for the call, and none after it.            *)
(***************************************************************************)
Notify (h, o) ==
  IF o \in Shared /\ o \in Notified THEN [h EXCEPT !.slot[o] = None] ELSE h

\* equipment::unequip
Unequip (h, t, n) ==
  LET o == h.held[t]
      out (r) == [heap |-> SetSlot (r.heap, o, None), item |-> o, count |-> n - r.rest]
  IN  out (RemoveItems (GetItem (h, t), t, o, n))

\* Mutation: what was in the slot is not returned.
EquipItemForgets (h, t, o, n) ==
  LET r == AddItems (h, t, o, n)
  IN  IF h.count[t] > 0 /\ ~ Same (h.held[t], o)
      THEN LET old == Unequip (h, t, h.count[t])
           IN  [heap |-> AddItems (old.heap, t, o, n).heap, item |-> None, count |-> 0]
      ELSE [heap |-> r.heap, item |-> IF r.rest > 0 THEN o ELSE None, count |-> r.rest]

\* equipment::equip of n items o that are accepted by slot t.
EquipItem (h, t, o, n) ==
  LET source == h.slot[o]
      told   == IF source # None /\ source \in Equipment /\ h.count[source] = n
                THEN Notify (h, o) ELSE h
      replace (old) == [heap |-> Notify (AddItems (old.heap, t, o, n).heap, o),
                        item |-> old.item, count |-> old.count]
      put (r) == [heap |-> IF r.rest < n THEN Notify (r.heap, o) ELSE r.heap,
                  item |-> IF r.rest > 0 THEN o ELSE None, count |-> r.rest]
  IN  IF h.count[t] > 0 /\ ~ Same (h.held[t], o)
      THEN replace (Unequip (told, t, h.count[t]))
      ELSE put (AddItems (told, t, o, n))

Accepts (t, o) == t \in Equipment /\ KindOf[o] \in Wearable

EquipHand (t) ==
  /\ hand # Empty /\ Accepts (t, hand.item) /\ SmallEnough (hand.item, hand.count)
  /\ hand.count > MaxStack (hand.item) => Crowded
  /\ \E r \in {EquipItem (heap, t, hand.item, hand.count)} :
         /\ heap' = r.heap
         /\ hand' = [item |-> r.item, count |-> r.count]
  /\ UNCHANGED <<slots, alive, made, hung>>

\* What is equipped from a slot stays there as far as it did not fit.
EquipFrom (s, t, n) ==
  /\ hand = Empty
  /\ heap.held[s] # None /\ Accepts (t, heap.held[s])
  /\ s \in Equipment /\ heap.held[s] \in Shared \cap Notified => Swaps
  /\ \E r \in {EquipItem (GetItem (heap, s), t, heap.held[s], n)} :
         /\ heap' = r.heap
         /\ hand' = IF r.item = heap.held[s] THEN Empty ELSE [item |-> r.item, count |-> r.count]
  /\ UNCHANGED <<slots, alive, made, hung>>

TakeOut (s, n) ==
  /\ hand = Empty
  /\ heap.held[s] # None
  /\ \E r \in {Unequip (heap, s, n)} :
         /\ heap' = r.heap
         /\ hand' = [item |-> r.item, count |-> r.count]
  /\ UNCHANGED <<slots, alive, made, hung>>

-----------------------------------------------------------------------------
(***************************************************************************)
(* inventory::combine. Recipes say what the Python method combine of the   *)
(* target does: whether it returns the target itself or an item from the   *)
(* storage, and whether it destroys the agent. Items are designed properly *)
(* in that the temporary slot takes all results.                           *)
(***************************************************************************)
CombineOne (acc, target, agent, recipe) ==
  LET also (d, dead) == [d EXCEPT !.dead = @ \cup dead]
      o    == acc.heap.held[target]
      a    == acc.heap.held[agent]
      seen == GetItem (GetItem (acc.heap, target), agent)
      kept == recipe.result = Self
      use  == IF recipe.consumes THEN Destroyed (seen, a) ELSE [heap |-> seen, dead |-> {}]
      replace (used) ==
        IF kept THEN used
        ELSE also (Destroyed (FromStorage (used.heap, recipe.result), o), used.dead)
      keep (d) == [heap |-> AddItems (d.heap, Tmp, IF kept THEN o ELSE recipe.result, 1).heap,
                   dead |-> acc.dead \cup d.dead, n |-> acc.n + 1]
  IN  keep (replace (use))

CombineNext (acc, target, agent, recipe) ==
  IF acc.heap.count[target] > 0 /\ acc.heap.count[agent] > 0
  THEN CombineOne (acc, target, agent, recipe) ELSE acc

CombineAll (target, agent, recipe) ==
  FoldLeft (LAMBDA acc, j : CombineNext (acc, target, agent, recipe),
            [heap |-> heap, dead |-> {}, n |-> 0],
            [j \in 1 .. heap.count[target] |-> j])

\* The results go back to the target slot, or to the inventory if there
\* still are items in the target slot.
Settle (h, n, target, i) ==
  LET put (r) == [heap |-> r.heap, rest |-> r.rest, new |-> <<>>, hung |-> FALSE]
  IN  IF h.count[target] = 0 THEN put (AddItems (h, target, h.held[Tmp], n))
      ELSE InvAdd (h, i, h.held[Tmp], n)

\* The temporary slot is gone, and so are the items that stayed in it.
Without (h, dead) ==
  [Forgotten (h, dead) EXCEPT
     !.slot = [p \in Item |-> IF @[p] = Tmp THEN None ELSE @[p]]]

Combine (i, target, agent, recipe) ==
  /\ target # agent
  /\ heap.held[target] # None /\ KindOf[heap.held[target]] = recipe.target
  /\ heap.held[agent] # None /\ KindOf[heap.held[agent]] = recipe.agent
  /\ MayLook (target) /\ MayLook (agent)
  /\ hand.item # recipe.result
  /\ \E c \in {CombineAll (target, agent, recipe)} :
       /\ c.heap.count[Tmp] = c.n
       /\ SmallEnough (c.heap.held[Tmp], c.n)
       /\ recipe.result \in Shared => made[recipe.result] + c.n <= MaxMade
       /\ \E r \in {Settle (GetItem (c.heap, Tmp), c.n, target, i)} :
            /\ FitsModel (i, r)
            /\ r.rest > 0 => Crowded
            /\ heap' = Without (Cleared (r.heap, {Tmp}), Deleted (r.heap, {Tmp}))
            /\ slots' = [slots EXCEPT ![i] = @ \o r.new]
            /\ alive' = alive \ (c.dead \cup Deleted (r.heap, {Tmp}))
            /\ hung' = r.hung
       /\ made' = [k \in Kinds |->
             made[k] - (IF k = recipe.agent /\ recipe.consumes THEN c.n ELSE 0)
                     - (IF k = recipe.target /\ recipe.result # Self THEN c.n ELSE 0)
                     + (IF k = recipe.result THEN c.n ELSE 0)]
  /\ UNCHANGED hand

-----------------------------------------------------------------------------
\* The slots that are saved: those that have items.
SaveSlot (h, kept, s) == IF h.count[s] > 0 THEN Append (kept, s) ELSE kept

Saved (h, list) == FoldLeft (LAMBDA kept, s : SaveSlot (h, kept, s), <<>>, list)

(***************************************************************************)
(* inventory::put_state, inventory::~inventory and inventory::get_state:   *)
(* empty slots of growing inventories are not saved, and shared items are  *)
(* looked up in the storage when they are loaded.                          *)
(***************************************************************************)
Reload (i) ==
  /\ slots' = [slots EXCEPT ![i] =
       IF i \in Limited THEN @ ELSE Saved (heap, @)]
  /\ heap' = [heap EXCEPT !.slot =
       [o \in Item |-> IF o \in Shared /\ \E s \in SlotsOf (i) : heap.held[s] = o
                       THEN None ELSE @[o]]]
  /\ UNCHANGED <<hand, alive, made, hung>>

Making ==
  \/ \E o \in Mutable : Create (o)
  \/ \E k \in Shared, n \in 1 .. MaxMade : Fetch (k, n)
  \/ \E i \in Inventory : PutInto (i)
  \/ \E s \in InUse : PutSlot (s)

Moving ==
  \E s \in InUse :
    \/ \E n \in Amounts (s) :
         \/ \E i \in Inventory : MoveInto (s, i, n)
         \/ \E t \in InUse : MoveTo (s, t, n)
         \/ \E t \in InUse : EquipFrom (s, t, n)
         \/ TakeOut (s, n)
    \/ EquipHand (s)
    \/ Look (s)

Combining ==
  \E i \in Inventory, agent \in InUse, recipe \in Recipes :
    \E target \in SlotsOf (i) : Combine (i, target, agent, recipe)

Unmaking ==
  \/ \E o \in Mutable : Destroy (o)
  \/ \E s \in InUse : DestroyShared (s) \/ Clear (s)
  \/ \E i \in Inventory : DeleteInventory (i) \/ Reload (i)

Next == ~ hung /\ (Making \/ Moving \/ Combining \/ Unmaking)

Spec == Init /\ [][Next]_vars

-----------------------------------------------------------------------------
\* A recipe combines items of two kinds and returns the target or something
\* of another kind than the target.
RecipesFit == \A r \in Recipes : r.target # r.agent /\ r.result # r.target

\* Scripts do no more than the code copes with.
Careful == ~ Greedy /\ ~ BigStacks /\ ~ Peeking /\ ~ Swaps /\ ~ Crowded /\ RecipesFit

-----------------------------------------------------------------------------
(* Properties. *)

\* All parts of the state have their types.
TypeOK ==
  /\ heap \in HeapType
  /\ slots \in [Inventory -> Seq (Slot \ {Tmp})]
  /\ hand = Empty \/ hand \in [item : Item, count : Nat \ {0}]
  /\ alive \subseteq Mutable
  /\ made \in [Kinds -> Nat]
  /\ hung \in BOOLEAN

\* However items are moved, equipped and combined, none is duplicated or
\* lost: the slots and the hand have as many items of every kind as were
\* made and not destroyed.
NothingLost ==
  \A k \in Kinds :
    made[k] = Counted (heap, InUse, k)
                + (IF hand # Empty /\ KindOf[hand.item] = k THEN hand.count ELSE 0)

\* A slot counts the mutable items that are stacked in it, all of them know
\* the slot, and no item thinks it is in a slot that does not have it.
StacksAgree ==
  /\ \A s \in InUse : heap.held[s] \in Mutable =>
       LET stack == Stack (heap, heap.held[s])
       IN  /\ Cardinality (stack) = heap.count[s]
           /\ \A o \in stack : o \in alive /\ heap.slot[o] = s
  /\ \A o \in alive :
       IF heap.slot[o] = None THEN o \in Stack (heap, hand.item)
       ELSE heap.slot[o] \in InUse /\ o \in Stack (heap, heap.held[heap.slot[o]])

\* A slot without items has no item, so that slot::count tells whether it is
\* empty and other items can be put there.
EmptyIfNoneCounted ==
  \A s \in Slot : heap.count[s] = 0 <=> heap.held[s] = None

\* No slot takes more items than may be stacked.
NotOverfull ==
  \A s \in Slot : heap.held[s] # None => heap.count[s] <= MaxStack (heap.held[s])

\* Slots, items and counts agree after any sequence of moves.
SlotsAgree ==
  /\ TypeOK
  /\ StacksAgree
  /\ EmptyIfNoneCounted
  /\ NotOverfull

\* Whenever items of a slot are added to another inventory, that inventory
\* then has all of them but those that inventory::add says did not fit.
HonestRemainder ==
  \A i \in Inventory : \A s \in InUse \ SlotsOf (i) :
    heap.held[s] # None /\ MayLook (s) =>
      \A n \in {m \in Amounts (s) : SmallEnough (heap.held[s], m)} :
        LET k == KindOf[heap.held[s]]
            r == InvAdd (GetItem (heap, s), i, heap.held[s], n)
        IN  Counted (r.heap, SlotsOf (i) \cup ToSet (r.new), k)
              - Counted (heap, SlotsOf (i), k) = n - r.rest

\* Items are put on top of the items of their kind as long as these take
\* them, and only then into an empty or a new slot.
StacksFirst ==
  hand # Empty /\ SmallEnough (hand.item, hand.count) =>
    \A i \in Inventory :
      LET r     == InvAdd (heap, i, hand.item, hand.count)
          taken == {s \in SlotsOf (i) : heap.count[s] = 0 /\ r.heap.count[s] > 0}
      IN  taken # {} \/ r.new # <<>> =>
            \A s \in SlotsOf (i) \ taken :
              heap.held[s] # None /\ Same (heap.held[s], hand.item) =>
                r.heap.count[s] = MaxStack (hand.item)

\* inventory::add puts items where they belong and is honest about the rest.
AddedInFull == HonestRemainder /\ StacksFirst

\* inventory::add returns.
AddReturns == ~ hung
=============================================================================

SPECIFICATION Spec
CONSTANTS
  t1 = t1
  t2 = t2
  t3 = t3
  stick = stick
  arrow = arrow
  pack = pack
  belt = belt
  chest = chest
  None = None
  Mutable = {t1, t2, t3}
  Shared = {stick, arrow}
  KindOf <- MCKindOf
  StackOf <- MCStackOf
  Slot = {1, 2, 3, 4, 9}
  Inventory = {pack, belt, chest}
  Limited = {pack, belt}
  InitSlots <- MCInitSlots
  Tmp = 9
  Equipment = {3}
  Wearable <- MCWearable
  Notified = {arrow}
  Recipes <- MCRecipes
  MaxMade = 2
  Greedy = FALSE
  BigStacks = FALSE
  Peeking = FALSE
  Swaps = FALSE
  Crowded = FALSE
SYMMETRY Torches
INVARIANTS NothingLost SlotsAgree AddedInFull AddReturns

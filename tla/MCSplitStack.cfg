SPECIFICATION Spec
CONSTANTS
  t1 = t1
  t2 = t2
  t3 = t3
  stick = stick
  arrow = arrow
  pack = pack
  belt = belt
  chest = chest
  None = None
  Mutable = {t1, t2, t3}
  Shared = {}
  KindOf <- MCKindOf
  StackOf <- MCStackOf
  Slot = {1, 2, 3, 4, 9}
  Inventory = {pack, belt, chest}
  Limited = {pack, belt}
  InitSlots <- MCInitSlots
  Tmp = 9
  Equipment = {3}
  Wearable = {}
  Notified = {}
  Recipes = {}
  MaxMade = 1
  Greedy = FALSE
  BigStacks = TRUE
  Peeking = FALSE
  Swaps = FALSE
  Crowded = FALSE
SYMMETRY Torches
INVARIANT HonestRemainder

SPECIFICATION FairSpec
CONSTANTS
  f1 = f1
  e1 = e1
  e2 = e2
  MaxListener = 4
  Factory = {f1}
  NoFactory = NoFactory
  PauseMod = 2
  Event = {e1, e2}
  Matching <- MCMatching
  Repeats <- MCRepeats
  Unconnected = {3}
  MaxDepth = 3
  Ops <- AllOps
  OuterOps = {}
  SelfOps <- SafeSelfOps
INVARIANTS WalksSound WalkComplete
PROPERTIES RaiseEnds
CHECK_DEADLOCK FALSE

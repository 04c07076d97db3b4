SPECIFICATION Spec
CONSTANTS
  Scenes = {"tasks"}
  None = None
  Character = {ann, bob, cid}
  MaxTasks = 2
  Frames = {0, 2}
  Patience = 2
  MaxBlocked = 1
  MaxPath = 1
  Careless = {}
  Kind = {walk, sit, lost, faulty}
  Missing = {lost}
  Faulty = {faulty}
  PauseMod = 3
  Delays = {1, 2, 3}
  MaxTime = 6
  Resolution = 2
  MaxAlarm = 3
INVARIANTS FreshSearch

SPECIFICATION FairSpec
CONSTANTS
  f1 = f1
  MaxListener = 2
  Factory = {f1}
  NoFactory = NoFactory
  PauseMod = 3
  MaxTime = 4
  Resolution = 2
  Times <- MCTimes
  AlarmTimes <- MCAlarmTimes
  Intervals = {2}
  Repeats <- MCRepeats
  Unconnected = {2}
  Ops <- AllOps
  SelfOps <- SafeSelfOps
INVARIANTS AlarmsSound
PROPERTIES DeliveredWhenDue ImplementsAlarmClock RaiseEnds AlarmGoesOff ClearedIsDeleted
CHECK_DEADLOCK FALSE

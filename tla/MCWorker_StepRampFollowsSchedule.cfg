CONSTANTS
  MillisecondBucket = 2
  Tasks <- StepTasks
  StressTime = 2
  SecPerMin = 2
  KST = 1
  PoolSize = 1
  ChanCap = 2
  PopWait = 1
  MaxDelay = 1
  Durs = {0, 2}
  MaxTime = 4
  MaxStops = 1
  NoEntry = NoEntry
SPECIFICATION Spec
INVARIANT
  StepRampFollowsSchedule
CHECK_DEADLOCK FALSE

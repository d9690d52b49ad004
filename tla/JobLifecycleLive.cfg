SPECIFICATION LiveSpec
CONSTANTS
  i1 = i1
  i2 = i2
  t1 = t1
  t2 = t2
  w1 = w1
  w2 = w2
  None = None
  Ids <- MCIds
  Tasks <- MCTasks
  Workers <- OneWorker
  Capacity = 1
  Requested <- OnlyDefault
  DefaultLimit = 1
  SeededLimit = 1
  SeedSize = 0
  RetryRequests = 1
  MaxFaults = 0
  MaxBoots = 1
PROPERTIES EveryJobFinishes ScheduledIsDispatched
CHECK_DEADLOCK FALSE

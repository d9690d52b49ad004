SPECIFICATION WebSpec
CONSTANTS
  a = a
  b = b
  broken = broken
  scalar = scalar
  None = None
  NoJob = NoJob
  Jobs <- MCJobs
  Present <- MCPresent
  FirstRows <- MCRows
  Visited <- MCVisited
  JobTypes <- MCTypes
  Priorities <- MCPriorities
  Limits <- MCLimits
  Times <- MCTimes
  Labels <- MCLabels
  Typed <- MCTyped
  Broken = broken
  Scalar = scalar
  MaxGets = 2
  MaxEdits = 2
  MaxDeeds = 2
  MaxEvents = 1
INVARIANTS SentAsPreviewed NoSecondSubmission PageShowsItsJob PageIsCurrent
PROPERTIES LeavesForCause BusyEnds
CHECK_DEADLOCK FALSE

SPECIFICATION ShutdownLiveSpec
CONSTANTS
  handler = handler
  timer = timer
  c1 = c1
  c2 = c2
  r1 = r1
  j1 = j1
  j2 = j2
  None = None
  Capacity = 1
  Producers <- MCProducers
  Handlers <- MCHandlers
  Consumers <- MCConsumers
  Readers <- MCReaders
  Jobs <- MCJobs
  JobsOf <- MCJobsOf
INVARIANTS TypeOK NeverSendOnClosed LengthAccounting RequestsEndBeforeClose
PROPERTIES  CallsReturnUnlessJammed ReceivedIsWorkedOnUnlessJammed ExitsUnlessJammed
CHECK_DEADLOCK FALSE

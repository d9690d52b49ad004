SPECIFICATION LiveSpec
CONSTANTS
  p1 = p1
  p2 = p2
  c1 = c1
  c2 = c2
  r1 = r1
  j1 = j1
  None = None
  Capacity = 1
  Producers <- MCProducers
  Consumers <- MCConsumers
  Readers <- MCReaders
  Jobs <- MCJobs
PROPERTY DequeueBlocksOnlyForAJob
CHECK_DEADLOCK FALSE

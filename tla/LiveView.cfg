SPECIFICATION LiveSpec
CONSTANTS
  c1 = c1
  c2 = c2
  b1 = b1
  b2 = b2
  None = None
  Conns <- MCConns
  Broadcasters <- MCBroadcasters
  Buffer = 1
  MaxEvents = 2
  Writers <- AnyWriter
  MaxLosses = 2
INVARIANTS DeliveredOrDropped OrderRespected
PROPERTIES BroadcastsReturn GoneAreForgotten StreamedChangesAreShown
CHECK_DEADLOCK FALSE

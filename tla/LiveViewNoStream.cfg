SPECIFICATION LiveSpec
CONSTANTS
  c1 = c1
  c2 = c2
  b1 = b1
  b2 = b2
  None = None
  Conns <- MCConns
  Broadcasters <- MCBroadcasters
  Buffer = 1
  MaxEvents = 2
  Writers <- LoggingWriter
  MaxLosses = 1
PROPERTY PageCatchesUp
CHECK_DEADLOCK FALSE

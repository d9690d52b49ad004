SPECIFICATION LiveSpec
CONSTANTS
  Rows = 4
  Width = 2
  RowStates <- AllKinds
INVARIANTS VerdictIsReference NoSendAfterClose
PROPERTY EverythingEnds
CHECK_DEADLOCK FALSE

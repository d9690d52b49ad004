SPECIFICATION Spec
CONSTANTS
  d1 = d1
  d2 = d2
  None = None
  Doctors <- MCDoctors
  MaxRetries = 2
  MaxRounds = 1
SYMMETRY Symmetry
INVARIANT BackoffAsDocumented
CHECK_DEADLOCK FALSE

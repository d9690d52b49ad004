SPECIFICATION Spec
CONSTANTS
  d1 = d1
  d2 = d2
  None = None
  Doctors <- MCDoctors
  MaxRetries = 2
  MaxRounds = 1
SYMMETRY Symmetry
INVARIANTS AttemptsInOrder BackoffDoubles ViewHasItsAttempts CleanDelete NoStaleDiagnostic
CHECK_DEADLOCK FALSE

SPECIFICATION Spec
CONSTANTS
  Attempts = 5
  Calls = 3
INVARIANTS FlagsAreReset
CHECK_DEADLOCK FALSE

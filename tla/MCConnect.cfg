SPECIFICATION Spec
CONSTANTS
  Attempts = 5
  Calls = 3
INVARIANTS TypeOK ErrnoTellsTruth ReturnsConnected BlockingUnlessTimeout
PROPERTIES ConnectingEnds
CHECK_DEADLOCK FALSE

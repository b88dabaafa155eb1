\* Nobody removes the lock that a killed process leaves behind.
SPECIFICATION FairSpec

CONSTANTS
  Processes = {p1, p2}
  Changes = {c1, c2}
  None = None
  OperatorClears = FALSE
  MaxFaults = 2

PROPERTIES
  ServesAgain

\* An idle server waits for ever.
CHECK_DEADLOCK FALSE

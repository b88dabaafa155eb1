\* Two processes, three changes, kills and failed writes; someone clears locks.
SPECIFICATION FairSpec

CONSTANTS
  Processes = {p1, p2}
  Changes = {c1, c2, c3}
  None = None
  OperatorClears = TRUE
  MaxFaults = 3

INVARIANTS
  OneOwner
  AcknowledgedSurvives
  BackupLagsByOne
  StaysSealed

PROPERTIES
  NoNewTears
  ServesAgain

\* An idle server waits for ever.
CHECK_DEADLOCK FALSE

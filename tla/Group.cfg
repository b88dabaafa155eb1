\* A group run by itself, two workers on three nodes; and a group run beside two
\* commands that change the same file, one of whose nodes is online.
SPECIFICATION StoresSpec

CONSTANTS
  NodeCount = 3
  MaxConcurrency = 2
  StateWritable = FALSE
  StdoutOpen = FALSE
  p1 = p1
  p2 = p2
  Processes = {p1, p2}
  Plans <- SomePlans

INVARIANTS
  StoresTypeOK
  SharedOut
  LeftOnlyByErrors
  WithinConcurrency
  SuccessAnswersForAll
  LostOnlyToOverlap
  AuditMatchesWork

PROPERTIES
  RunEnds
  RefinesGroupRun
  RevokedIsNotCleared

\* The run ends.
CHECK_DEADLOCK FALSE

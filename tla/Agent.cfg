\* Both transports, two tasks, one failure that leaves something behind, and
\* any number of those that do not.
SPECIFICATION Spec

CONSTANTS
  TaskCount = 2
  Timeout <- Uneven
  DefaultTimeout = 1
  Grace = 1
  Silence = 4
  Commands = {1}
  Oversized = {}
  Transports = {"polling", "websocket"}
  MaxFaults = 1

INVARIANTS
  RecordedWasRun

PROPERTIES
  OneRunPerLease
  EndsOnce
  EveryTaskEnds
  KeepsReconnecting

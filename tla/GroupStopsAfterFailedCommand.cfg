\* A single worker under the policy stop goes on after a failed command.
SPECIFICATION Spec

CONSTANTS
  NodeCount = 2
  MaxConcurrency = 1
  StdoutOpen = TRUE

PROPERTIES
  StopsAfterFailedCommand

CHECK_DEADLOCK FALSE

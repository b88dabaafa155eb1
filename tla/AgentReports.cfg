\* A task that runs longer than a WebSocket may be silent, and whose output is
\* larger than the Control Plane's limit for a request.
SPECIFICATION Spec

CONSTANTS
  TaskCount = 1
  Timeout <- Long
  DefaultTimeout = 2
  Grace = 1
  Silence = 1
  Commands = {1}
  Oversized = {1}
  Transports = {"polling", "websocket"}
  MaxFaults = 0

PROPERTIES
  EveryTaskEnds

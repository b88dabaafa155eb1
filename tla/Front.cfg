\* Two connections, as many as the ceiling and the thread limit allow; the
\* credential is rotated and the node revoked while requests are under way.
SPECIFICATION FrontSpec

CONSTANTS
  Connections = {c1, c2}
  MAX_CONNECTIONS = 2
  TasksMax = 3
  Nodes = {n1}
  Actors = {alice}
  Payloads = {p1}
  Keys = {}
  DataClasses = {standard}
  TaskIds = {t1}
  GrantCodes = {g1}
  ApprovalIds = {}
  None = None
  Cleaned <- AsIs
  NODE_ONLINE_TTL_MS = 0
  DEFAULT_TASK_TIMEOUT_MS = 1
  LeaseGrace = 0
  GrantTTL = 1
  ApprovalTTL = 2
  AllowedAbilities <- AllAbilities
  ApprovalRequired <- DefaultApprovalRequired
  AllowedActors = {}
  AllowedCommands = {}
  AllowedPaths = {}
  AllowedDataClasses = {}
  RequireApprovalRecords = FALSE
  Backend = "sqlite"
  PersistFails = FALSE
  RandomFails = FALSE
  Requests <- OneRequest
  Offers <- FullOffer
  Outcomes = {"succeeded"}
  MaxTime = 1
  MaxTokens = 2

INVARIANTS
  PlacesTaken
  WithinCeiling
  OneLastWord

PROPERTIES
  PlainEnds
  ServesControlPlane

\* The snapshot backend: what was refused is on disk.
SPECIFICATION Spec

CONSTANTS
  Nodes = {n1}
  Actors = {alice}
  Payloads = {p1}
  Keys = {}
  DataClasses = {standard}
  TaskIds = {t1}
  GrantCodes = {}
  ApprovalIds = {}
  None = None
  Cleaned <- AsIs
  NODE_ONLINE_TTL_MS = 2
  DEFAULT_TASK_TIMEOUT_MS = 1
  LeaseGrace = 1
  GrantTTL = 2
  ApprovalTTL = 2
  AllowedAbilities <- AllAbilities
  ApprovalRequired <- DefaultApprovalRequired
  AllowedActors = {}
  AllowedCommands = {}
  AllowedPaths = {}
  AllowedDataClasses = {}
  RequireApprovalRecords = FALSE
  Backend = "snapshot"
  PersistFails = TRUE
  RandomFails = FALSE
  Requests <- PlainRequests
  Offers <- NoOffers
  Outcomes = {"succeeded"}
  MaxTime = 2
  MaxTokens = 2

INVARIANTS
  RefusalLeavesNoTrace

\* A key with a tab in it is sent again after a restart.
SPECIFICATION Spec

CONSTANTS
  Nodes = {n1}
  Actors = {alice}
  Payloads = {p1}
  Keys = {tab, blank}
  DataClasses = {standard}
  TaskIds = {t1, t2}
  GrantCodes = {}
  ApprovalIds = {}
  None = None
  Cleaned <- AllAlike
  NODE_ONLINE_TTL_MS = 2
  DEFAULT_TASK_TIMEOUT_MS = 1
  LeaseGrace = 1
  GrantTTL = 2
  ApprovalTTL = 2
  AllowedAbilities <- AllAbilities
  ApprovalRequired <- DefaultApprovalRequired
  AllowedActors = {}
  AllowedCommands = {}
  AllowedPaths = {}
  AllowedDataClasses = {}
  RequireApprovalRecords = FALSE
  Backend = "snapshot"
  PersistFails = FALSE
  RandomFails = FALSE
  Requests <- TabbedRequests
  Offers <- NoOffers
  Outcomes = {"succeeded"}
  MaxTime = 2
  MaxTokens = 2

INVARIANTS
  OneTaskPerKey

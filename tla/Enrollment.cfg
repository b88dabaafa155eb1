\* Two nodes compete for two grants on the transactional backend; credentials are
\* rotated, nodes revoked, heartbeats offer what is not known.
SPECIFICATION Spec

CONSTANTS
  Nodes = {n1, n2}
  Actors = {alice}
  Payloads = {p1}
  Keys = {}
  DataClasses = {standard}
  TaskIds = {}
  GrantCodes = {g1, g2}
  ApprovalIds = {}
  None = None
  Cleaned <- AsIs
  NODE_ONLINE_TTL_MS = 2
  DEFAULT_TASK_TIMEOUT_MS = 1
  LeaseGrace = 1
  GrantTTL = 1
  ApprovalTTL = 2
  AllowedAbilities <- AllAbilities
  ApprovalRequired <- DefaultApprovalRequired
  AllowedActors = {}
  AllowedCommands = {}
  AllowedPaths = {}
  AllowedDataClasses = {}
  RequireApprovalRecords = FALSE
  Backend = "sqlite"
  PersistFails = TRUE
  RandomFails = TRUE
  Requests <- NoRequests
  Offers <- OffersWithUnknown
  Outcomes = {"succeeded"}
  MaxTime = 2
  MaxTokens = 3

SYMMETRY Symmetry

INVARIANTS
  TypeOK
  GrantEnrollsOnce
  RefusalLeavesNoTrace

PROPERTIES
  HistoryGrows

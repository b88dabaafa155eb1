\* Two actors, one idempotency key, two approvals, two tasks.
SPECIFICATION Spec

CONSTANTS
  Nodes = {n1}
  Actors = {alice, bob}
  Payloads = {p1}
  Keys = {k1}
  DataClasses = {standard}
  TaskIds = {t1, t2}
  GrantCodes = {}
  ApprovalIds = {a1, a2}
  None = None
  Cleaned <- AsIs
  NODE_ONLINE_TTL_MS = 2
  DEFAULT_TASK_TIMEOUT_MS = 1
  LeaseGrace = 1
  GrantTTL = 2
  ApprovalTTL = 2
  AllowedAbilities <- AllAbilities
  ApprovalRequired <- DefaultApprovalRequired
  AllowedActors = {}
  AllowedCommands = {}
  AllowedPaths = {}
  AllowedDataClasses = {}
  RequireApprovalRecords = TRUE
  Backend = "snapshot"
  PersistFails = TRUE
  RandomFails = FALSE
  Requests <- ExecRequests
  Offers <- NoOffers
  Outcomes = {"succeeded"}
  MaxTime = 2
  MaxTokens = 2

INVARIANTS
  OneTaskPerKey
  ApprovalsSpentOnce
  AuditAccountsForState

PROPERTIES
  ImplementsLedger

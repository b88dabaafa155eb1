\* Leases that expire, results that come late, a node that is revoked.
SPECIFICATION Spec

CONSTANTS
  Nodes = {n1}
  Actors = {alice}
  Payloads = {p1}
  Keys = {}
  DataClasses = {standard}
  TaskIds = {t1, t2}
  GrantCodes = {}
  ApprovalIds = {}
  None = None
  Cleaned <- AsIs
  NODE_ONLINE_TTL_MS = 2
  DEFAULT_TASK_TIMEOUT_MS = 1
  LeaseGrace = 1
  GrantTTL = 2
  ApprovalTTL = 2
  AllowedAbilities <- AllAbilities
  ApprovalRequired <- DefaultApprovalRequired
  AllowedActors = {}
  AllowedCommands = {}
  AllowedPaths = {}
  AllowedDataClasses = {}
  RequireApprovalRecords = FALSE
  Backend = "snapshot"
  PersistFails = TRUE
  RandomFails = TRUE
  Requests <- PlainRequests
  Offers <- FullOffer
  Outcomes = {"succeeded"}
  MaxTime = 3
  MaxTokens = 4

SYMMETRY Symmetry

INVARIANTS
  RevokedQuiesced
  ResultsStand
  OneLiveLease
  DiskContinuesMemory

PROPERTIES
  RevokedIsSilent
  CredentialsNeverReturn

SPECIFICATION Spec
CONSTANTS
  NULL = NULL
  Nil = NULL
  Empty = ""
  Request <- MCRequests
  Digest <- MCDigest
  ProductRepo = {}
  Roles <- MCRoles
  Required <- MCRequired
  SchemaValid <- MCSchemaValid
  Key = {}
  Document <- MCDocument
  Clock = {0, 1, 2}
  IdRank <- MCIdRank
  Declares <- MCDeclares
  DefaultProfiles <- MCProfiles
  Aware <- MCAware
  Environment <- MCEnvironment
  MaxTime = 4
  Offsets = {0, 1}
  Subjects = {"s1", "s2"}
  Severities = {1, 2}
  Policies <- MCPolicies
  MaxReports = 3
  MaxEvents = 3
INVARIANT CurrentIsOne
INVARIANT CorrectionsWin
INVARIANT DurationsHold
PROPERTY HistoryStands
CHECK_DEADLOCK FALSE

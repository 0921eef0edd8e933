SPECIFICATION Spec
CONSTANTS
  h1 = h1
  h2 = h2
  h3 = h3
  NULL = NULL
  Nil = NULL
  Empty = ""
  Host = {h1, h2, h3}
  Dialect = "postgres"
  Request <- ChainRequests
  Digest <- MCDigest
  ProductRepo <- MCProductRepo
  Roles <- MCRoles
  Required <- MCRequired
  SchemaValid <- MCSchemaValid
  Key <- MCKey
  Document <- MCDocument
  LockKey <- MCLockKey
SYMMETRY HostSymmetry
INVARIANT Linear
INVARIANT OneCurrent
INVARIANT NoWaitCycle
PROPERTY AnswersTrue

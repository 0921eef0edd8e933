SPECIFICATION LiveSpec
CONSTANTS
  h1 = h1
  h2 = h2
  h3 = h3
  NULL = NULL
  Nil = NULL
  Empty = ""
  Host = {h1, h2}
  Dialect = "postgres"
  Request <- MixedRequests
  Digest <- MCDigest
  ProductRepo <- MCProductRepo
  Roles <- MCRoles
  Required <- MCRequired
  SchemaValid <- MCSchemaValid
  Key <- MCKey
  Document <- MCDocument
  LockKey <- MCLockKey
PROPERTY ImplementsAbs
PROPERTY EveryCallEnds

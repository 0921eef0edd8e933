SPECIFICATION Spec
CONSTANTS
  a = a
  b = b
  c = c
  Nil = Nil
  Node = {a, b, c}
  Schemas <- MCSchemas
  ValueSet = {"grade", "status", "colour"}
  Walks <- MCWalks
  none = none
  None = none
  Text <- MCText
  WithNul = {"a NUL a"}
  Encodable = {"", "a", "U+0001", "U+0001 a", "a U+0001", "e-acute", "a NUL a"}
  Utf8 <- MCUtf8
  Context <- MCContext
  MaxIssued = 2
  Files <- MCFiles
  Exempt = {"CHANGELOG.md"}
  Quoted <- MCQuoted
  Tabbed = {}
  Lines <- MCLines
  Figures <- MCFigures
  Debt <- MCDebt
  Contents <- MCContents
  DetectRenames = TRUE
  FirstTrees <- MCFirstTrees
  Public = TRUE
  MaxEdits = 1
  MaxGuardCommits = 2
  Absent = Absent
  MaxRewrites = 2
  Bad = Bad
  LikelihoodTotals = {23, 24}
  ImpactTotals = {11, 12, 24}
  Grain = 2
  Scores = {5748, 5753, 5999, 12002, Bad}
  RoundsIn <- MCRoundsIn
INVARIANT AcyclicIsExact
INVARIANT NoCollision
INVARIANT NoNewFigure
INVARIANT ProblemsIsExact
CHECK_DEADLOCK FALSE

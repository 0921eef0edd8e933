SPECIFICATION Spec
CONSTANTS
  old = old
  mid = mid
  new = new
  other = other
  Host <- MCHost
  Dialect = "sqlite"
  Version <- MCVersion
  Package <- MCPackage
  Table <- MCTable
  Introduced <- MCIntroduced
  Column <- MCColumn
  Of <- MCOf
  Added <- MCAdded
  View <- MCView
  Since <- MCSince
  Nil <- NoVersion
INVARIANT MigratedIsFresh
INVARIANT OpenedFits
INVARIANT DeltasApply
PROPERTY ImplementsUpgrade

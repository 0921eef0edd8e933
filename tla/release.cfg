SPECIFICATION Spec
CONSTANTS
  MaxCommits <- MCCommits
  Kinds <- MCKinds
  Versions <- MCVersions
  MaxFails <- MCFails
  MaxByHand = 3
INVARIANT TypeOK
INVARIANT TagsHold
INVARIANT TagsAscend
PROPERTY WorthyReleased

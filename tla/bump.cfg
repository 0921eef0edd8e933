SPECIFICATION Spec
CONSTANTS
  Lengths = {2, 3}
  MaxCommits <- MCCommits
  MaxPrs <- MCPrs
  MaxMoves <- MCMoves
  Developed = {1}
INVARIANT TypeOK
INVARIANT PinsOnOrigin
INVARIANT ChainAgrees
INVARIANT ReconcileRepairs
PROPERTY ValidPinsStayValid

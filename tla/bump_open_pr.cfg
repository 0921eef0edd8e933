SPECIFICATION Spec
CONSTANTS
  Lengths = {2}
  MaxCommits <- MCCommits
  MaxPrs <- MCTwoPrs
  MaxMoves <- MCMoves
  Developed = {1}
INVARIANT OpenPrOpens

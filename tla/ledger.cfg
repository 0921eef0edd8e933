SPECIFICATION Spec
CONSTANTS
  Writer = {w1, w2}
  Layer = {l1, l2}
  Event = {e1, e2}
  Repo = {r1, r2}
  Nil = Nil
  MaxSeq = 2
  Dialect = "postgres"
SYMMETRY Symmetry
INVARIANT StreamsAreLogs
INVARIANT LayersAgree
INVARIANT BatchNeverWaits
PROPERTY AppendOnly

SPECIFICATION Spec
CONSTANTS
  Host = {h1, h2}
  Id = {i1, i2, i3, i4}
  Key <- WithVersions
  Attr = {a1, a2}
  Nil = Nil
  Stranger = Stranger
  Dialect = "postgres"
SYMMETRY Symmetry
INVARIANT Consistent
INVARIANT AnswersStand
PROPERTY ImplementsRegistry

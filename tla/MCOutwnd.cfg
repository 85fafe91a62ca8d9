CONSTANTS
  W = 4
  Pd = {p1}
  NULL = NULL
  Base = 100
  MaxAdds = 10
  RunLens <- MCRunLens
SPECIFICATION Spec
INVARIANT TypeOK
INVARIANT ScansMatchReference
INVARIANT AckWalkMatchesRunlen

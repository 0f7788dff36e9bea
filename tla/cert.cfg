SPECIFICATION Spec
CONSTANTS
  Processes = {p1, p2}
  MaxKeys = 4
SYMMETRY Symmetric
INVARIANT TypeOK
PROPERTIES ReturnsMatchingPair PairIsKept

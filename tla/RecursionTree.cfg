SPECIFICATION Spec
CONSTANTS
  Signatures = {p, q}
  MaxTurns = 4
  MaxNodes = 4
  MaxDepth = 2
  MaxSubcalls = 1
  MaxCommits = 1
  MaxParts = 3
SYMMETRY SignatureSymmetry
INVARIANTS
  TypeOK
  TreeKeepsItsBounds
  SpendingIsAccounted

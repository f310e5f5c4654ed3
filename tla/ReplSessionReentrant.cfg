SPECIFICATION Spec
CONSTANTS
  MaxBlocks = 2
  MaxCalls = 2
  MaxPulls = 1
  MaxAsks = 0
  MayDie = FALSE
INVARIANT
  NoUnexpectedFrame

SPECIFICATION Spec
CONSTANTS
  Contexts <- MCContexts
  Width <- MCWidth
  Foreign <- MCForeign
  MaxDepth = 2
  MaxNodes = 3
  Outcomes <- MCOutcomes
  MaxSweeps <- MCMaxSweeps
INVARIANT
  NoUnitHides

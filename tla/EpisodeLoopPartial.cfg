SPECIFICATION Spec
CONSTANTS
  MaxTurns = 2
  MaxErrors = 0
  MaxTruncations = 2
  MaxDuplicates = 2
  MaxCommits = 1
  MaxRecoveries = 1
  MaxSubmits = 2
  Values = {v, w}
  Dangling = {}
  NoValue = NoValue
INVARIANT
  PartialIsRetriable

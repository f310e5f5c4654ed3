SPECIFICATION FairSpec
CONSTANTS
  MaxTurns = 4
  MaxErrors = 2
  MaxTruncations = 2
  MaxDuplicates = 2
  MaxCommits = 2
  MaxRecoveries = 1
  MaxSubmits = 2
  Values = {v, w}
  Dangling = {w}
  NoValue = NoValue
INVARIANTS
  TypeOK
  EffortIsBounded
PROPERTIES
  Contract
  EpisodeEnds

SPECIFICATION FairSpec
CONSTANTS
  MaxBlocks = 3
  MaxCalls = 3
  MaxPulls = 2
  MaxAsks = 1
  MayDie = TRUE
INVARIANTS
  TypeOK
  ClockMeasuresCode
  ChannelInStep
PROPERTIES
  ExecuteReturns
  Contract

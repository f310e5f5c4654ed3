SPECIFICATION FairSpec
CONSTANTS
  NumJobs = 4
  Width = 3
  MaxSubcalls = 3
  MaxTokens = 2
  MaxReply = 2
  SourceMayRaise = TRUE
INVARIANTS TypeOK AllowanceKept WindowHolds TokenOverrunBounded
PROPERTIES BatchEnds Contract

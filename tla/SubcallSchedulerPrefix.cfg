SPECIFICATION Spec
CONSTANTS
  NumJobs = 4
  Width = 2
  MaxSubcalls = 2
  MaxTokens = 2
  MaxReply = 1
  SourceMayRaise = TRUE
INVARIANT RepliesArePrefix

SPECIFICATION ScoringSpec
CONSTANTS
  Sample <- MCSample
  Specs <- MCSpecs
  Labels = {"loc", "num"}
  Values <- MCValues
  Candidates <- MCCandidates
  RowTables <- MCRowTables
  CallLists <- MCCallLists
CHECK_DEADLOCK FALSE
INVARIANTS
  ScoringTypeOK
  AcceptedMeansSame
  FormatGainsNoContent
  AuditBorrowsNothing

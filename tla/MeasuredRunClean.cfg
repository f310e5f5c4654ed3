SPECIFICATION Spec
CONSTANTS
  Tasks <- MCTasks
  Pickings <- MCShards
  Versions = {v1, v2}
  Surface <- MCHidden
  Kinds = {"pilot"}
  Configs <- MCPlain
  MaxSecond = 2
  MaxRequests = 1
  MaxRuns = 2
  MaxEvents = 1
SYMMETRY VersionSymmetry
CHECK_DEADLOCK FALSE
INVARIANT ConsolidatedIsClean

SPECIFICATION Spec
CONSTANTS
  Tasks <- MCTasks
  Pickings <- MCShards
  Versions = {v1, v2}
  Surface <- MCHidden
  Kinds = {"suite"}
  Configs <- MCPlain
  MaxSecond = 1
  MaxRequests = 1
  MaxRuns = 1
  MaxEvents = 2
SYMMETRY VersionSymmetry
CHECK_DEADLOCK FALSE
INVARIANT DropsFiledRight

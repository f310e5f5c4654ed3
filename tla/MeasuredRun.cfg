SPECIFICATION Spec
CONSTANTS
  Tasks <- MCTasks
  Pickings <- MCPickings
  Versions = {v1, v2}
  Surface <- MCVisible
  Kinds = {"suite", "smoke", "pilot", "upstream"}
  Configs <- MCConfigs
  MaxSecond = 2
  MaxRequests = 2
  MaxRuns = 2
  MaxEvents = 2
SYMMETRY VersionSymmetry
CHECK_DEADLOCK FALSE
INVARIANTS
  TypeOK
  CleanStart
  DocumentIsWhole
  ConsolidatedIsWhole
PROPERTY
  EvidenceStays

SPECIFICATION SegmenterSpec
CONSTANTS
  MinChars = 2
  TargetChars = 3
  MaxChars = 4
  Cap = 2
  MaxStretches = 4
  MaxLen = 6
  MaxSlots = 3
INVARIANTS
  SegmenterTypeOK
  SegmentsTileWhole
  GivenOnce

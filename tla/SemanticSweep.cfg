SPECIFICATION Spec
CONSTANTS
  Fragments <- MCFragments
  Values = {v, w}
  MaxCalls = 4
INVARIANTS
  TypeOK
  PaysOnce
PROPERTY
  SettledValuesStay

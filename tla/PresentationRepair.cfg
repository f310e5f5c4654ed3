SPECIFICATION Spec
CONSTANTS
  MaxAttempts = 3
  MaxProtocol = 2
  MaxBuilds = 2
  MaxReserve = 1
  Texts = {bad, worse, worst, good}
  Valid = {good}
  NoText = NoText
INVARIANTS
  TypeOK
  TextsAreCurrent
  ReserveIsEarned

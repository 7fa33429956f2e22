CONSTANTS
  Items = {c1, c2}
  Err = Err
  MaxSent = 4

SPECIFICATION Spec

INVARIANTS
  EndIsComplete
  BackPressure
  NoWakeLost
PROPERTIES
  FailsOnlyIfGone
  SendReturns
  EndIsReached

CONSTANTS
  Threads = {t1, t2, t3}
  Frac = 2
  Interval <- MCInterval
  DurationMax <- MCDurationMax
  MaxSecs = 3

SPECIFICATION Spec
SYMMETRY Symmetry

INVARIANTS
  ClaimsAreHonoured
PROPERTIES
  SuppressedNearACall

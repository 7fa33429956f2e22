CONSTANTS
  Threads = {t1, t2, t3}
  Frac = 2
  Interval <- MCWholeInterval
  DurationMax <- MCDurationMax
  MaxSecs = 3

SPECIFICATION Spec
SYMMETRY Symmetry

INVARIANTS
  OncePerInterval

CONSTANTS
  Apis = {logs}
  Processors <- MCProcessors
  Batches = {}
  ApiOf <- MCApiOf
  Malformed = {}
  Conns = {}
  To <- MCTo
  MaxFaults = 0
  NoBatch = NoBatch

SPECIFICATION Spec
CHECK_DEADLOCK FALSE

INVARIANTS
  TerminationHeard
  
PROPERTIES
  SignalEndsProcess
  InitPhaseEnds

CONSTANTS
  logs = logs
  telemetry = telemetry
  b1 = b1
  b2 = b2
  Apis = {logs, telemetry}
  Processors <- MCProcessors
  Batches = {b1, b2}
  ApiOf <- MCApiOf
  Malformed <- MCMalformed
  Conns = {c1, c2}
  To <- MCTo
  MaxFaults = 1
  NoBatch = NoBatch

SPECIFICATION Spec
CHECK_DEADLOCK FALSE

INVARIANTS
  ProcessorSerial
  AnswersAreTrue
  SubscribedInInit
  FailureEndsRun
PROPERTIES
  BatchesDelivered

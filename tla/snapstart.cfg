CONSTANTS
  credentials = credentials
  pool = pool
  clock = clock
  cache = cache
  Resources = {credentials, pool, clock, cache}
  Foundations <- MCFoundations

SPECIFICATION Spec

INVARIANTS
  FoundationsFirst
  ServesWhenReady
  FailureReportedOnce
  NoStaleConnection
PROPERTIES
  LifecycleTerminates

CONSTANTS
  a1 = a1
  a2 = a2
  a3 = a3
  r1 = r1
  r2 = r2
  NoEnv = NoEnv
  NoAttempt = NoAttempt
  NoId = NoId
  NoWorker = NoWorker
  Attempts = {a1, a2}
  Requests = {r1, r2}
  ReqOf <- MCReqOf
  Shapes <- EssentialOrUnreadable
  Entry = "run_concurrent"
  EnvConcurrency = 2
  DebugBuild = FALSE
  TraceEnabled = FALSE

SPECIFICATION Spec

INVARIANTS
  NoCrossWiring
  PostedOnce
  NoSilentDrop
  ReturnsAfterAllWorkers
PROPERTIES
  KeepsPromise
  QueueIsServed
  EventuallyReturns

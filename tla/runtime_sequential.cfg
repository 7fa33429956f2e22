CONSTANTS
  a1 = a1
  a2 = a2
  a3 = a3
  r1 = r1
  r2 = r2
  NoEnv = NoEnv
  NoAttempt = NoAttempt
  NoId = NoId
  NoWorker = NoWorker
  Attempts = {a1, a2, a3}
  Requests = {r1, r2}
  ReqOf <- MCReqOf
  Shapes <- OneFlaw
  Entry = "run_concurrent"
  EnvConcurrency = NoEnv
  DebugBuild = TRUE
  TraceEnabled = TRUE

SPECIFICATION Spec

INVARIANTS
  TraceEnvMatches
PROPERTIES
  KeepsPromise

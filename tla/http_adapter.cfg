CONSTANTS
  p = p
  q = q
  Opaque = Opaque
  Raw = Raw
  NoTrace = NoTrace
  Traces = {t1, t2, NoTrace}
  FeatureSets <- MCFeatureSets
  Values <- MCValues
  Sent <- MCSent
  Responses <- MCResponses

SPECIFICATION Spec
CHECK_DEADLOCK FALSE

INVARIANTS
  ResponseInKind
  RequestArrives
  HeadersArrive
  BodyArrives

CONSTANTS
  c1 = c1
  c2 = c2
  Prelude = Prelude
  Delimiter = Delimiter
  ErrorText = ErrorText
  StreamError = StreamError
  Err = Err
  Items <- MCItems
  MaxYielded = 4

SPECIFICATION Spec

INVARIANTS
  WholeStream
  StopsSoon

CONSTANTS
  Reqs = {q1}
  MayTimeOut = TRUE
  MaxGen = 2
  MaxDup = 0
  MaxResend = 2
SPECIFICATION Spec
INVARIANT FlushedOnce

CONSTANTS
  Reqs = {q1}
  MayTimeOut = TRUE
  MaxGen = 2
  MaxDup = 0
  MaxResend <- Unbounded
SPECIFICATION FairSpec
PROPERTY EveryChannelEnds

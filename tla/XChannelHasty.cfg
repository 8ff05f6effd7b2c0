CONSTANTS
  Plans <- PlansHasty
  BodySize = 2
  SnSpace = 16
  Range = 4
  ResendGap = 3
  MsgBufRange = 2
  MinThreshold = 2
SPECIFICATION Spec
INVARIANT ResendsOnlySent
CHECK_DEADLOCK FALSE

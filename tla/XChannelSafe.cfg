CONSTANTS
  Plans <- PlansSafe
  BodySize = 2
  SnSpace = 16
  Range = 4
  ResendGap = 1
  MsgBufRange = 2
  MinThreshold = 2
SPECIFICATION Spec
INVARIANTS TypeOK InOrderOnce BackMeansDelivered WindowsFit EarlyInWindow BytesAddUp
CHECK_DEADLOCK FALSE

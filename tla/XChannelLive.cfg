CONSTANTS
  Plans <- PlansLive
  BodySize = 2
  SnSpace = 16
  Range = 4
  ResendGap = 1
  MsgBufRange = 2
  MinThreshold = 2
SPECIFICATION FairSpec
PROPERTIES EverythingArrives ChannelIsLink
CHECK_DEADLOCK FALSE

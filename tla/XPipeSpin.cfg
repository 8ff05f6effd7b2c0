\* Two writers block on a full pipe.
CONSTANTS
  Writers = {w1, w2}
  Readers = {r1}
  PipeLen = 1
  MsgLen = 1
  MaxCalls = 2
  NoThread = NoThread
SPECIFICATION FairSpec
PROPERTY SpinEnds
CHECK_DEADLOCK FALSE

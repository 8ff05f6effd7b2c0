\* Two writers share a pipe that never fills: the message pipe of xltp.
CONSTANTS
  Writers = {w1, w2}
  Readers = {r1}
  PipeLen = 4
  MsgLen = 2
  MaxCalls = 1
  NoThread = NoThread
SPECIFICATION FairSpec
INVARIANTS TypeOK NoTornMessage NoLostWakeup NothingLeaks
PROPERTIES WriteReturns PipeIsQueue

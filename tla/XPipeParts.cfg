\* Messages longer than the pipe: it fills, empties and wraps, every call moves its
\* data in several parts, and the owner breaks and frees it.
CONSTANTS
  Writers = {w1}
  Readers = {r1}
  PipeLen = 2
  MsgLen = 3
  MaxCalls = 4
  NoThread = NoThread
SPECIFICATION FairSpec
INVARIANTS RingHoldsUnread FirstInFirstOut
PROPERTIES EverythingIsRead WriteReturns

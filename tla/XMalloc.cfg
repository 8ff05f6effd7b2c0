CONSTANTS
  Threads = {t1, t2}
  PageSize = 28
  Requests = {1, 3}
  AlignRequests = {2}
  Alignment = 4
  Recyclers = 2
SPECIFICATION FairSpec
INVARIANTS PageTiled TagsTell AllMergesBack
PROPERTY FreeReturns
CHECK_DEADLOCK FALSE

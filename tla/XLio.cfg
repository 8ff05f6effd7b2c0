CONSTANTS
  Plans <- Transfers
  MsgRange = 4
  PosSpace = 8
  Room = 3
  Chunk = 2
SPECIFICATION FairSpec
INVARIANTS PoolWhole FilesArePrefixes ClosedMeansComplete NoCrash

PROPERTIES FreedWhenQuiet TransferCompletes BothEndsRelease
CHECK_DEADLOCK FALSE

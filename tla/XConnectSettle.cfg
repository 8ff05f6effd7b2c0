CONSTANTS
  Reqs = {q1}
  MayTimeOut = FALSE
  MaxGen = 3
  MaxDup = 2
  MaxResend <- Unbounded
SPECIFICATION FairSpec
INVARIANTS TypeOK StaleOnlyIfOvertaken FlushedOnce AckedWasHeard FinalForRepeated
PROPERTY AnswerSettles

SPECIFICATION FairSpec
CONSTANTS
  r1 = r1
  r2 = r2
  r3 = r3
  s1 = s1
  s2 = s2
  Turns <- TwoTurns
  Sessions <- OneSession
  SessionOf <- SameSession
  Trials = 1
  MaxConcurrent = 1
  None = None
INVARIANT TypeOK
INVARIANT TrialsConserved
INVARIANT NoReplyNoTrial
INVARIANT SlotsAreHeld
INVARIANT PaidOnce
INVARIANT StopTargetsRunning
PROPERTY FailuresAreFree
PROPERTY SavedTurnsDoNotFail
PROPERTY EverySlotComesBack
CHECK_DEADLOCK FALSE

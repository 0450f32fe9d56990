SPECIFICATION Spec
CONSTANTS
  r1 = r1
  r2 = r2
  r3 = r3
  s1 = s1
  s2 = s2
  Turns <- TwoTurns
  Sessions <- OneSession
  SessionOf <- SameSession
  Trials = 1
  MaxConcurrent = 2
  None = None
PROPERTY StopDiscards
CHECK_DEADLOCK FALSE

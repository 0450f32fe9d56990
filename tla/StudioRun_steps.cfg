SPECIFICATION Spec
CONSTANTS
  r1 = r1
  r2 = r2
  w1 = w1
  w2 = w2
  w3 = w3
  None = None
  Runs <- TwoRuns
  Workers <- TwoWorkers
  Credits <- Amounts
  Opening = 1
  MaxBalance = 2
  HoldCredits = 1
  Costs <- JustTwo
  MaxWrites = 1
  MaxSteps = 1
  MaxRestarts = 1
  MaxTroubles = 1
INVARIANT TypeOK
INVARIANT NothingIsOverwritten
 
INVARIANT AppliedOnce
INVARIANT HoldsAreReleased
 
CHECK_DEADLOCK FALSE
SYMMETRY Interchangeable

SPECIFICATION Spec
CONSTANTS
  s1 = s1
  s2 = s2
  o1 = o1
  a1 = a1
  a2 = a2
  g1 = g1
  Sessions <- TwoSessions
  Target <- Addressed
  Ordinary <- OneOrdinary
  Acknowledged <- TwoAcknowledged
  Gates <- OneGate
  Deletable <- OneSession
  MaxRetries = 1
  MaxWaiters = 1
  PoolSize = 2
  None = None
INVARIANT TypeOK
INVARIANT BoundedQueue
INVARIANT CallbackRunsOnce
PROPERTY GoneIsNotSaved
PROPERTY KeepsPromise
CHECK_DEADLOCK FALSE

SPECIFICATION Spec
CONSTANTS
  s1 = s1
  s2 = s2
  p1 = p1
  d1 = d1
  v1 = v1
  v2 = v2
  None = None
  Steps <- TwoSteps
  Replies <- OneReply
  Draws <- OneDraw
  Visitors <- TwoVisitors
  Costs <- OneAndTwo
  Price = 1
  Horizon = 2
  Lease = 1
  Period = 2
  DropDay = 1
  Opening = 1
  Grant = 1
  Drop = 1
  MaxGifts = 1
  Credits <- Amounts
INVARIANT TypeOK
INVARIANT BucketsFit
INVARIANT LedgerAddsUp
INVARIANT SavedIsAccountedFor
INVARIANT HoldsCovered
PROPERTY OneGrantPerCycle
PROPERTY KeepsItsPromise
CHECK_DEADLOCK FALSE
SYMMETRY Interchangeable

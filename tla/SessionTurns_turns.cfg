SPECIFICATION Spec
CONSTANTS
  r1 = r1
  r2 = r2
  k1 = k1
  v0 = v0
  v1 = v1
  c1 = c1
  c2 = c2
  b1 = b1
  Keys <- OneKey
  Vals <- TwoVals
  Default = v0
  OnceKeys <- NoKeys
  True = v1
  SetupKeys <- NoKeys
  Contexts <- NoContexts
  Rules <- NoRules
  Requests <- TwoRequests
  Kinds <- AllKinds
  MaxGen = 2
  None = None
SYMMETRY Interchangeable
INVARIANT TypeOK
INVARIANT AlternativesShareBaseline
INVARIANT StateTracksTranscript
INVARIANT UiWriteSurvives
PROPERTY CommitsAreGrounded
CHECK_DEADLOCK FALSE

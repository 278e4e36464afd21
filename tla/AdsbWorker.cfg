SPECIFICATION Spec
CONSTANTS
  Margin <- MCMargin
  TokenTimeout = 1
  RequestTimeout = 3
  Interval = 1
  Lifetimes <- MCLifetimes
  NoToken = noToken
INVARIANTS
  TokenStillGood
  StopsInTime

SPECIFICATION FairSpec
CONSTANTS
  Keys = {k1, k2, k3}
  MaxRequests = 3
  None = None
INVARIANTS
  OneJobPerKey
  NothingForgotten
PROPERTY EveryRequestRuns
CHECK_DEADLOCK FALSE

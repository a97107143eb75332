SPECIFICATION Spec
CONSTANTS
  Pages = {p1}
  Passing = {}
  Manual = {b1}
  Restores = {}
  Adoptions = {}
  Cleanups = {}
  Sweeps = {w1}
  Saves = {}
  Deletions = {}
  Keep = 1
  MaxRestarts = 0
  None = None
PROPERTIES
  SweepKeepsValidSnapshots
CHECK_DEADLOCK FALSE

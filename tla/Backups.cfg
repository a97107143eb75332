SPECIFICATION Spec
CONSTANTS
  Pages = {p1,p2}
  Passing = {p1}
  Manual = {b1}
  Restores = {r1}
  Adoptions = {}
  Cleanups = {c1}
  Sweeps = {w1}
  Saves = {}
  Deletions = {d1}
  Keep = 1
  MaxRestarts = 1
  None = None
INVARIANTS
  ManifestMeansComplete
PROPERTIES
  NewestSnapshotsStay
  OverwrittenIsInSafetyCopy
CHECK_DEADLOCK FALSE
